---- MODULE Spec2Model ----
(***************************************************************************)
(* Adaptive LMS core: metrics aggregation, rules adapter, adaptation       *)
(* engine and recommendation service, modelled from                        *)
(* src/backend/app/core and src/backend/app/services.                      *)
(*                                                                         *)
(* Number conventions (the code uses floats):                              *)
(*   accuracy, mastery      ten-thousandths   (1.0  = 10000)               *)
(*   confidence             hundredths        (0.9  = 90)                  *)
(*   overall_confidence     three-hundredths  (mean of three confidences   *)
(*                          = their sum / 3, kept as the sum; 0.1 = 30)    *)
(*   response time          seconds, session time in minutes               *)
(*   avg_response_time      hundredths of a second (the profile column,    *)
(*                          which the aggregator rounds to 2 decimals)     *)
(* Optional values (Python None) are sequences of length 0 or 1 for        *)
(* numbers and the string "None" for strings.                              *)
(***************************************************************************)
EXTENDS Integers, Sequences, FiniteSets, TLC

VARIABLES
    default_strategy,   \* the default_strategy the engine was constructed with
    current_strategy,   \* AdaptationEngine.current_strategy
    profileRow,         \* the user's row of user_profiles
    metricsTable,       \* the user's rows of metrics, oldest first
    dialogRow,          \* the dialog the requests name
    messagesTable,      \* the user's messages, oldest first (content_id of each)
    catalog,            \* rows of content_items
    now,                \* datetime.utcnow(), minutes
    lastCall,           \* the last operation called and what it returned or raised
    sessions            \* per request handler: its SQLAlchemy session's view of the profile

vars == <<default_strategy, current_strategy, profileRow, metricsTable, dialogRow, messagesTable,
          catalog, now, lastCall, sessions>>

-----------------------------------------------------------------------------
(* Generic helpers *)

None == "None"
NoError == "none"

Max(a, b) == IF a >= b THEN a ELSE b
Min(a, b) == IF a <= b THEN a ELSE b

RECURSIVE SumSeq(_)
SumSeq(s) == IF s = <<>> THEN 0 ELSE Head(s) + SumSeq(Tail(s))

Reverse(s) == [i \in 1..Len(s) |-> s[Len(s) + 1 - i]]

\* the last n elements of s
LastN(s, n) == IF Len(s) <= n THEN s ELSE SubSeq(s, Len(s) - n + 1, Len(s))

\* s[:n]
FirstN(s, n) == IF Len(s) <= n THEN s ELSE SubSeq(s, 1, n)

SeqsUpTo(S, n) == UNION {[1..k -> S] : k \in 0..n}

EmptyMap == [t \in {} |-> 0]

-----------------------------------------------------------------------------
(* app/core/adaptation/config.py *)

DIFFICULTY_LEVELS == {"easy", "normal", "hard", "challenge"}
FORMATS == {"text", "visual", "video", "interactive"}
LEARNING_PACE == {"slow", "medium", "fast"}
TEMPO_TYPES == {"fast", "normal", "slow", "break"}

DIFFICULTY_ORDER(d) ==
    CASE d = "easy" -> 1
      [] d = "normal" -> 2
      [] d = "hard" -> 3
      [] d = "challenge" -> 4

DIFFICULTY_FROM_ORDER(n) ==
    CASE n = 1 -> "easy"
      [] n = 2 -> "normal"
      [] n = 3 -> "hard"
      [] n = 4 -> "challenge"

ACCURACY_HIGH_THRESHOLD == 8000
ACCURACY_MEDIUM_THRESHOLD == 5000
ACCURACY_LOW_THRESHOLD == 5000
RESPONSE_TIME_FAST_THRESHOLD == 30
RESPONSE_TIME_NORMAL_MAX == 90
RESPONSE_TIME_SLOW_THRESHOLD == 120
MASTERY_STRUGGLING_THRESHOLD == 4000
FOLLOWUPS_HIGH_THRESHOLD == 3
SESSION_LENGTH_LONG_MINUTES == 60
SESSION_INTERACTIONS_HIGH == 20
\* SESSION_FATIGUE_RT_INCREASE_PERCENT = 0.3, kept as the fraction 3/10
FATIGUE_INCREASE_NUM == 3
FATIGUE_INCREASE_DEN == 10
MIN_METRICS_FOR_HIGH_CONFIDENCE == 5
MIN_METRICS_FOR_MEDIUM_CONFIDENCE == 3

DEFAULT_DIFFICULTY == "normal"
DEFAULT_FORMAT == "text"
DEFAULT_PACE == "medium"
DEFAULT_TEMPO == "normal"

\* the order wraps around at both ends
get_difficulty_change_wrapping(current, change) ==
    IF current \notin DIFFICULTY_LEVELS
    THEN DEFAULT_DIFFICULTY
    ELSE DIFFICULTY_FROM_ORDER(((DIFFICULTY_ORDER(current) + change + 3) % 4) + 1)

get_difficulty_change(current, change) ==
    IF current \notin DIFFICULTY_LEVELS
    THEN DEFAULT_DIFFICULTY
    ELSE DIFFICULTY_FROM_ORDER(Max(1, Min(4, DIFFICULTY_ORDER(current) + change)))

-----------------------------------------------------------------------------
(* app/core/adaptation/rules.py *)

\* SessionContext()
EmptySessionContext ==
    [dialog_id |-> <<>>, session_start_time |-> <<>>, messages_count |-> 0,
     current_topic |-> None]

\* SessionContext.session_duration_minutes, evaluated at time t
session_duration_minutes(ctx, t) ==
    IF ctx.session_start_time = <<>> THEN 0 ELSE t - ctx.session_start_time[1]

has_session_data(ctx) == ctx.dialog_id # <<>> /\ ctx.session_start_time # <<>>

\* the metric_value_f of the rows named `name` that have a value, in row order
MetricValues(rows, name) ==
    LET sel == SelectSeq(rows, LAMBDA m : m.metric_name = name /\ m.metric_value_f # <<>>)
    IN [i \in 1..Len(sel) |-> sel[i].metric_value_f[1]]

build_metrics_summary(recent_metrics) ==
    [recent_accuracy |-> MetricValues(recent_metrics, "accuracy"),
     recent_response_times |-> MetricValues(recent_metrics, "response_time"),
     total_followups |-> SumSeq(MetricValues(recent_metrics, "followups_count")),
     total_attempts |-> SumSeq(MetricValues(recent_metrics, "attempts_count")),
     response_times_chronological |-> MetricValues(recent_metrics, "response_time")]

has_data(ms) == Len(ms.recent_accuracy) > 0 \/ Len(ms.recent_response_times) > 0
sample_size(ms) == Max(Len(ms.recent_accuracy), Len(ms.recent_response_times))

\* averages are kept as fractions n/d, d > 0; the defaults are 0.5 and 60.0
AvgAccuracy(ms) ==
    IF ms.recent_accuracy # <<>>
    THEN [n |-> SumSeq(ms.recent_accuracy), d |-> Len(ms.recent_accuracy)]
    ELSE [n |-> 5000, d |-> 1]

AvgResponseTime(ms) ==
    IF ms.recent_response_times # <<>>
    THEN [n |-> SumSeq(ms.recent_response_times), d |-> Len(ms.recent_response_times)]
    ELSE [n |-> 60, d |-> 1]

\* comparisons of a fraction with an integer threshold
FracGE(f, th) == f.n >= th * f.d
FracLT(f, th) == f.n < th * f.d
FracGT(f, th) == f.n > th * f.d

calculate_confidence(n) ==
    IF n >= MIN_METRICS_FOR_HIGH_CONFIDENCE THEN 90
    ELSE IF n >= MIN_METRICS_FOR_MEDIUM_CONFIDENCE THEN 70
    ELSE IF n > 0 THEN 50
    ELSE 30

\* rule 1 with a strict comparison of the accuracy
DifficultyRule_strict(ms) ==
    LET acc == AvgAccuracy(ms)
        rt == AvgResponseTime(ms)
    IN IF FracGT(acc, ACCURACY_HIGH_THRESHOLD) /\ FracLT(rt, RESPONSE_TIME_NORMAL_MAX)
       THEN 1
       ELSE IF FracLT(acc, ACCURACY_LOW_THRESHOLD) \/ FracGT(rt, RESPONSE_TIME_SLOW_THRESHOLD)
       THEN -1
       ELSE 0

\* decide_difficulty, lines 327-351: the change the rules give
DifficultyRule(ms) ==
    LET acc == AvgAccuracy(ms)
        rt == AvgResponseTime(ms)
    IN IF FracGE(acc, ACCURACY_HIGH_THRESHOLD) /\ FracLT(rt, RESPONSE_TIME_NORMAL_MAX)
       THEN 1
       ELSE IF FracLT(acc, ACCURACY_LOW_THRESHOLD) \/ FracGT(rt, RESPONSE_TIME_SLOW_THRESHOLD)
       THEN -1
       ELSE 0

decide_difficulty(user_profile, ms) ==
    LET current_difficulty == user_profile.current_difficulty
    IN IF ~has_data(ms)
       THEN [recommended_difficulty |-> current_difficulty,
             confidence |-> 30,
             reasoning |-> "no_recent_data",
             change_from_current |-> 0]
       ELSE LET change == DifficultyRule(ms)
            IN [recommended_difficulty |-> get_difficulty_change(current_difficulty, change),
                confidence |-> calculate_confidence(sample_size(ms)),
                reasoning |-> IF change > 0 THEN "increasing"
                              ELSE IF change < 0 THEN "decreasing" ELSE "maintaining",
                change_from_current |-> change]

\* rule 4 tried before rule 3
FormatRule_accuracy_first(ms) ==
    LET acc == AvgAccuracy(ms)
        rt == AvgResponseTime(ms)
    IN IF ms.total_followups > FOLLOWUPS_HIGH_THRESHOLD THEN "visual"
       ELSE IF FracGE(acc, ACCURACY_HIGH_THRESHOLD) /\ FracLT(rt, RESPONSE_TIME_FAST_THRESHOLD)
       THEN "text"
       ELSE IF FracLT(acc, ACCURACY_MEDIUM_THRESHOLD) THEN "interactive"
       ELSE IF FracGT(rt, RESPONSE_TIME_SLOW_THRESHOLD) THEN "video"
       ELSE "text"

FormatRule(ms) ==
    LET acc == AvgAccuracy(ms)
        rt == AvgResponseTime(ms)
    IN IF ms.total_followups > FOLLOWUPS_HIGH_THRESHOLD THEN "visual"
       ELSE IF FracGE(acc, ACCURACY_HIGH_THRESHOLD) /\ FracLT(rt, RESPONSE_TIME_FAST_THRESHOLD)
       THEN "text"
       ELSE IF FracGT(rt, RESPONSE_TIME_SLOW_THRESHOLD) THEN "video"
       ELSE IF FracLT(acc, ACCURACY_MEDIUM_THRESHOLD) THEN "interactive"
       ELSE "text"

decide_format(user_profile, ms) ==
    LET preferred_format == user_profile.preferred_format
    IN IF preferred_format # None /\ preferred_format \in FORMATS
       THEN [recommended_format |-> preferred_format, confidence |-> 90,
             reasoning |-> "preferred"]
       ELSE IF ~has_data(ms)
       THEN [recommended_format |-> DEFAULT_FORMAT, confidence |-> 30,
             reasoning |-> "no_data"]
       ELSE [recommended_format |-> FormatRule(ms),
             confidence |-> calculate_confidence(sample_size(ms)),
             reasoning |-> "rule"]

\* an increase of exactly 30% counts as fatigue
detect_fatigue_inclusive(ms) ==
    LET rts == ms.response_times_chronological
        mid == Len(rts) \div 2
        s1 == SumSeq(SubSeq(rts, 1, mid))
        s2 == SumSeq(SubSeq(rts, mid + 1, Len(rts)))
        n1 == mid
        n2 == Len(rts) - mid
    IN IF Len(rts) < 3 THEN FALSE
       ELSE IF s1 = 0 THEN FALSE
       ELSE IF s1 > 0
       THEN FATIGUE_INCREASE_DEN * (s2 * n1 - s1 * n2) >= FATIGUE_INCREASE_NUM * n2 * s1
       ELSE FATIGUE_INCREASE_DEN * (s2 * n1 - s1 * n2) <= FATIGUE_INCREASE_NUM * n2 * s1

detect_fatigue(ms) ==
    LET rts == ms.response_times_chronological
        mid == Len(rts) \div 2
        s1 == SumSeq(SubSeq(rts, 1, mid))
        s2 == SumSeq(SubSeq(rts, mid + 1, Len(rts)))
        n1 == mid
        n2 == Len(rts) - mid
    IN IF Len(rts) < 3 THEN FALSE
       ELSE IF s1 = 0 THEN FALSE
       \* (s2/n2 - s1/n1) / (s1/n1) > 3/10, cleared of divisions
       ELSE IF s1 > 0
       THEN FATIGUE_INCREASE_DEN * (s2 * n1 - s1 * n2) > FATIGUE_INCREASE_NUM * n2 * s1
       ELSE FATIGUE_INCREASE_DEN * (s2 * n1 - s1 * n2) < FATIGUE_INCREASE_NUM * n2 * s1

\* the pace of the profile tried before fatigue
decide_tempo_pace_first(user_profile, ms, ctx, t) ==
    IF ~has_session_data(ctx)
    THEN [recommended_tempo |-> DEFAULT_TEMPO, confidence |-> 50,
          reasoning |-> "no_session_context"]
    ELSE LET session_minutes == session_duration_minutes(ctx, t)
             interactions == ctx.messages_count
             recommended ==
                 IF session_minutes > SESSION_LENGTH_LONG_MINUTES THEN "break"
                 ELSE IF interactions > SESSION_INTERACTIONS_HIGH THEN "slow"
                 ELSE IF user_profile.learning_pace = "fast" /\ interactions < 10 THEN "fast"
                 ELSE IF detect_fatigue(ms) THEN "slow"
                 ELSE "normal"
         IN [recommended_tempo |-> recommended,
             confidence |-> Min(90, 50 + 2 * interactions),
             reasoning |-> "rule"]

decide_tempo(user_profile, ms, ctx, t) ==
    IF ~has_session_data(ctx)
    THEN [recommended_tempo |-> DEFAULT_TEMPO, confidence |-> 50,
          reasoning |-> "no_session_context"]
    ELSE LET session_minutes == session_duration_minutes(ctx, t)
             interactions == ctx.messages_count
             recommended ==
                 IF session_minutes > SESSION_LENGTH_LONG_MINUTES THEN "break"
                 ELSE IF interactions > SESSION_INTERACTIONS_HIGH THEN "slow"
                 ELSE IF detect_fatigue(ms) THEN "slow"
                 ELSE IF user_profile.learning_pace = "fast" /\ interactions < 10 THEN "fast"
                 ELSE "normal"
         IN [recommended_tempo |-> recommended,
             \* min(0.9, 0.5 + (interactions / 20) * 0.4)
             confidence |-> Min(90, 50 + 2 * interactions),
             reasoning |-> "rule"]

\* order of the keys of a map as the store returns them (shorter key first,
\* then alphabetical); sorted() is stable, so it breaks ties of mastery
KeyRank(t) ==
    CASE t = "calc" -> 1
      [] t = "algebra" -> 2
      [] t = "geometry" -> 3
      [] OTHER -> 4

RECURSIVE SortByMastery(_, _)
SortByMastery(S, m) ==
    IF S = {} THEN <<>>
    ELSE LET lo == CHOOSE t \in S : \A u \in S :
                       m[t] < m[u] \/ (m[t] = m[u] /\ KeyRank(t) <= KeyRank(u))
         IN <<lo>> \o SortByMastery(S \ {lo}, m)

\* a mastery equal to the threshold counts as struggling
identify_remediation_inclusive(user_profile) ==
    LET topic_mastery == user_profile.topic_mastery
        struggling == {t \in DOMAIN topic_mastery :
                          topic_mastery[t] <= MASTERY_STRUGGLING_THRESHOLD}
    IN IF DOMAIN topic_mastery = {}
       THEN [topics |-> <<>>, mastery_scores |-> EmptyMap, reasoning |-> "no_mastery_data"]
       ELSE IF struggling = {}
       THEN [topics |-> <<>>, mastery_scores |-> EmptyMap, reasoning |-> "all_adequate"]
       ELSE [topics |-> SortByMastery(struggling, topic_mastery),
             mastery_scores |-> [t \in struggling |-> topic_mastery[t]],
             reasoning |-> "identified"]

identify_remediation(user_profile) ==
    LET topic_mastery == user_profile.topic_mastery
        struggling == {t \in DOMAIN topic_mastery :
                          topic_mastery[t] < MASTERY_STRUGGLING_THRESHOLD}
    IN IF DOMAIN topic_mastery = {}
       THEN [topics |-> <<>>, mastery_scores |-> EmptyMap, reasoning |-> "no_mastery_data"]
       ELSE IF struggling = {}
       THEN [topics |-> <<>>, mastery_scores |-> EmptyMap, reasoning |-> "all_adequate"]
       ELSE [topics |-> SortByMastery(struggling, topic_mastery),
             mastery_scores |-> [t \in struggling |-> topic_mastery[t]],
             reasoning |-> "identified"]

generate_overall_reasoning(difficulty, format_dec, tempo, remediation, ms) ==
    [adjusting_difficulty |-> difficulty.change_from_current # 0,
     format |-> format_dec.recommended_format,
     pace |-> IF tempo.recommended_tempo # "normal" THEN tempo.recommended_tempo ELSE None,
     focus_areas |-> FirstN(remediation.topics, 2),
     cold_start |-> ~(sample_size(ms) > 0),
     system_fallback |-> FALSE]

RulesAdapter_get_recommendation(user_profile, recent_metrics, session_context, t) ==
    LET ms == build_metrics_summary(recent_metrics)
        difficulty == decide_difficulty(user_profile, ms)
        format_dec == decide_format(user_profile, ms)
        tempo == decide_tempo(user_profile, ms, session_context, t)
        remediation == identify_remediation(user_profile)
    IN [difficulty |-> difficulty,
        format |-> format_dec,
        tempo |-> tempo,
        remediation |-> remediation,
        overall_confidence |-> difficulty.confidence + format_dec.confidence + tempo.confidence,
        overall_reasoning |->
            generate_overall_reasoning(difficulty, format_dec, tempo, remediation, ms),
        metadata |-> [strategy |-> "rules",
                      metrics_sample_size |-> sample_size(ms),
                      has_session_context |-> has_session_data(session_context),
                      is_fallback |-> FALSE,
                      error |-> NoError]]

-----------------------------------------------------------------------------
(* app/core/adaptation/engine.py *)

AdaptationStrategy == {"rules", "bandit", "policy"}

\* _initialize_strategies: the keys of _strategy_registry
strategy_registry == {"rules"}

\* the outcome of a step: a value, or an exception with its text
Return(v) == [ok |-> TRUE, val |-> v, err |-> NoError]
Raise(e) == [ok |-> FALSE, val |-> None, err |-> e]

\* a missing profile treated as an error
fetch_user_profile_strict(row, fail) ==
    IF fail \/ ~row.exists THEN Raise("DataFetchError: Failed to fetch user profile")
    ELSE Return([topic_mastery |-> row.topic_mastery,
                 current_difficulty |-> row.current_difficulty,
                 preferred_format |-> row.preferred_format,
                 learning_pace |-> row.learning_pace])

\* fail: the query raises
fetch_user_profile(row, fail) ==
    IF fail THEN Raise("DataFetchError: Failed to fetch user profile")
    ELSE IF ~row.exists
    THEN Return([topic_mastery |-> EmptyMap,
                 current_difficulty |-> DEFAULT_DIFFICULTY,
                 preferred_format |-> None,
                 learning_pace |-> DEFAULT_PACE])
    ELSE Return([topic_mastery |-> row.topic_mastery,
                 current_difficulty |-> row.current_difficulty,
                 preferred_format |-> row.preferred_format,
                 learning_pace |-> row.learning_pace])

\* the oldest rows instead of the newest
fetch_recent_metrics_oldest(table, limit, fail) ==
    IF fail THEN <<>> ELSE FirstN(table, limit)

\* ORDER BY timestamp DESC LIMIT limit; a failing query gives the empty list
fetch_recent_metrics(table, limit, fail) ==
    IF fail THEN <<>> ELSE Reverse(LastN(table, limit))

build_session_context(dlg, dialog_given, fail) ==
    IF ~dialog_given THEN EmptySessionContext
    ELSE IF fail THEN EmptySessionContext
    ELSE IF ~dlg.exists THEN EmptySessionContext
    ELSE [dialog_id |-> <<dlg.dialog_id>>,
          session_start_time |-> dlg.started_at,
          messages_count |-> dlg.messages_count,
          current_topic |-> dlg.topic]

\* a fallback that keeps the cold-start confidence and does not flag itself
fallback_recommendation_unflagged(error_msg) ==
    [difficulty |-> [recommended_difficulty |-> DEFAULT_DIFFICULTY, confidence |-> 30,
                     reasoning |-> "fallback", change_from_current |-> 0],
     format |-> [recommended_format |-> DEFAULT_FORMAT, confidence |-> 30,
                 reasoning |-> "fallback"],
     tempo |-> [recommended_tempo |-> DEFAULT_TEMPO, confidence |-> 50,
                reasoning |-> "fallback"],
     remediation |-> [topics |-> <<>>, mastery_scores |-> EmptyMap,
                      reasoning |-> "fallback"],
     overall_confidence |-> 110,
     overall_reasoning |-> [adjusting_difficulty |-> FALSE,
                            format |-> DEFAULT_FORMAT,
                            pace |-> None,
                            focus_areas |-> <<>>,
                            cold_start |-> TRUE,
                            system_fallback |-> FALSE],
     metadata |-> [strategy |-> "rules",
                   metrics_sample_size |-> 0,
                   has_session_context |-> FALSE,
                   is_fallback |-> FALSE,
                   error |-> NoError]]

fallback_recommendation(error_msg) ==
    [difficulty |-> [recommended_difficulty |-> DEFAULT_DIFFICULTY, confidence |-> 10,
                     reasoning |-> "fallback", change_from_current |-> 0],
     format |-> [recommended_format |-> DEFAULT_FORMAT, confidence |-> 10,
                 reasoning |-> "fallback"],
     tempo |-> [recommended_tempo |-> DEFAULT_TEMPO, confidence |-> 10,
                reasoning |-> "fallback"],
     remediation |-> [topics |-> <<>>, mastery_scores |-> EmptyMap,
                      reasoning |-> "fallback"],
     overall_confidence |-> 30,
     overall_reasoning |-> [adjusting_difficulty |-> FALSE,
                            format |-> DEFAULT_FORMAT,
                            pace |-> None,
                            focus_areas |-> <<>>,
                            cold_start |-> FALSE,
                            system_fallback |-> TRUE],
     metadata |-> [strategy |-> "fallback",
                   metrics_sample_size |-> 0,
                   has_session_context |-> FALSE,
                   is_fallback |-> TRUE,
                   error |-> error_msg]]

\* the body of the try block of get_recommendation (lines 208-239)
get_recommendation_body(strategy, row, table, dlg, dialog_given, faults, t) ==
    LET p == fetch_user_profile(row, faults.profile)
    IN IF ~p.ok THEN p
       ELSE LET recent_metrics == fetch_recent_metrics(table, 10, faults.metrics)
                session_context == build_session_context(dlg, dialog_given, faults.session)
            IN IF strategy \notin strategy_registry
               THEN Raise("KeyError: " \o strategy)
               ELSE IF faults.strategy
               THEN Raise("adapter error")
               ELSE Return(RulesAdapter_get_recommendation(
                               p.val, recent_metrics, session_context, t))

\* what a call gives its caller: raised = NoError and a recommendation, or an exception
NoRecommendation == [populated |-> FALSE]

get_recommendation_nocatch(strategy, row, table, dlg, dialog_given, faults, t) ==
    LET r == get_recommendation_body(strategy, row, table, dlg, dialog_given, faults, t)
    IN IF r.ok THEN [raised |-> NoError, rec |-> r.val]
       ELSE [raised |-> r.err, rec |-> NoRecommendation]

AdaptationEngine_get_recommendation(strategy, row, table, dlg, dialog_given, faults, t) ==
    LET r == get_recommendation_body(strategy, row, table, dlg, dialog_given, faults, t)
    IN IF r.ok THEN [raised |-> NoError, rec |-> r.val]
       ELSE [raised |-> NoError, rec |-> fallback_recommendation(r.err)]

\* switches without looking the strategy up
set_strategy_unguarded(current, strategy) ==
    [raised |-> NoError, current_strategy |-> strategy]

set_strategy(current, strategy) ==
    IF strategy \notin strategy_registry
    THEN [raised |-> "StrategyNotFoundError", current_strategy |-> current]
    ELSE [raised |-> NoError, current_strategy |-> strategy]

-----------------------------------------------------------------------------
(* The store: rows of user_profiles, metrics and dialogs *)

NoProfileRow ==
    [exists |-> FALSE, topic_mastery |-> EmptyMap, current_difficulty |-> DEFAULT_DIFFICULTY,
     preferred_format |-> None, learning_pace |-> DEFAULT_PACE,
     avg_response_time |-> <<>>, total_interactions |-> 0, last_updated |-> 0]

ProfileRow(m, d, f) ==
    [exists |-> TRUE, topic_mastery |-> m, current_difficulty |-> d,
     preferred_format |-> f, learning_pace |-> DEFAULT_PACE,
     avg_response_time |-> <<>>, total_interactions |-> 0, last_updated |-> 0]

NoDialogRow ==
    [exists |-> FALSE, dialog_id |-> 0, topic |-> None, started_at |-> <<>>,
     messages_count |-> 0]

DialogRow(topic, n) ==
    [exists |-> TRUE, dialog_id |-> 1, topic |-> topic, started_at |-> <<0>>,
     messages_count |-> n]

MetricRow(name, v) == [metric_name |-> name, metric_value_f |-> <<v>>]

NoFaults == [profile |-> FALSE, metrics |-> FALSE, session |-> FALSE, strategy |-> FALSE]
Faults == [profile : BOOLEAN, metrics : BOOLEAN, session : BOOLEAN, strategy : BOOLEAN]

\* the record of a call: its arguments, and what it raised or returned
NoCall ==
    [op |-> "init", strategy_arg |-> None, prev_strategy |-> None,
     dialog_given |-> FALSE, faults |-> NoFaults,
     raised |-> NoError, rec |-> NoRecommendation]

-----------------------------------------------------------------------------
(* The adaptation engine: set_strategy and get_recommendation on one engine *)

MaxMetricRows == 1

EngineMasteryMaps ==
    {EmptyMap,
     ("algebra" :> 2000) @@ ("calc" :> 6000),
     ("algebra" :> 3000) @@ ("calc" :> 1000)}

EngineProfileRows ==
    {NoProfileRow} \cup
    {ProfileRow(m, d, None) : m \in EngineMasteryMaps, d \in DIFFICULTY_LEVELS} \cup
    {ProfileRow(EmptyMap, "hard", "video")}

EngineMetricRows == {MetricRow("accuracy", 10000), MetricRow("response_time", 150)}

EngineDialogRows == {NoDialogRow, DialogRow(None, 4), DialogRow("calc", 25)}

InitEngine ==
    /\ default_strategy \in AdaptationStrategy
    /\ current_strategy = default_strategy
    /\ profileRow \in EngineProfileRows
    /\ metricsTable \in SeqsUpTo(EngineMetricRows, MaxMetricRows)
    /\ dialogRow \in EngineDialogRows
    /\ now \in {30, 90}
    /\ messagesTable = <<>>
    /\ catalog = {}
    /\ sessions = <<>>
    /\ lastCall = NoCall

SetStrategy ==
    \E strategy \in AdaptationStrategy :
        LET r == set_strategy(current_strategy, strategy)
        IN /\ current_strategy' = r.current_strategy
           /\ lastCall' = [NoCall EXCEPT !.op = "set_strategy",
                                         !.strategy_arg = strategy,
                                         !.prev_strategy = current_strategy,
                                         !.raised = r.raised]
           /\ UNCHANGED <<default_strategy, profileRow, metricsTable, dialogRow,
                          messagesTable, catalog, now, sessions>>

GetRecommendation ==
    \E dialog_given \in BOOLEAN, faults \in Faults :
        LET r == AdaptationEngine_get_recommendation(
                     current_strategy, profileRow, metricsTable, dialogRow,
                     dialog_given, faults, now)
        IN /\ lastCall' = [NoCall EXCEPT !.op = "get_recommendation",
                                         !.dialog_given = dialog_given,
                                         !.faults = faults,
                                         !.raised = r.raised,
                                         !.rec = r.rec]
           /\ UNCHANGED <<default_strategy, current_strategy, profileRow, metricsTable,
                          dialogRow, messagesTable, catalog, now, sessions>>

NextEngine == SetStrategy \/ GetRecommendation

SpecEngine == InitEngine /\ [][NextEngine]_vars

-----------------------------------------------------------------------------
(* Claims about the adaptation engine *)

RecommendationFields ==
    {"difficulty", "format", "tempo", "remediation", "overall_confidence",
     "overall_reasoning", "metadata"}

FullyPopulated(rec) ==
    /\ DOMAIN rec = RecommendationFields
    /\ rec.difficulty.recommended_difficulty \in DIFFICULTY_LEVELS
    /\ rec.difficulty.confidence \in 0..100
    /\ rec.format.recommended_format \in FORMATS
    /\ rec.format.confidence \in 0..100
    /\ rec.tempo.recommended_tempo \in TEMPO_TYPES
    /\ rec.tempo.confidence \in 0..100
    /\ DOMAIN rec.remediation = {"topics", "mastery_scores", "reasoning"}
    /\ rec.overall_confidence \in 0..300
    /\ rec.metadata.strategy \in {"rules", "fallback"}

IsFallback(rec) ==
    /\ FullyPopulated(rec)
    /\ rec.difficulty.recommended_difficulty = "normal"
    /\ rec.format.recommended_format = "text"
    /\ rec.tempo.recommended_tempo = "normal"
    /\ rec.remediation.topics = <<>>
    /\ rec.difficulty.confidence = 10
    /\ rec.format.confidence = 10
    /\ rec.tempo.confidence = 10
    /\ rec.overall_confidence = 30
    /\ rec.metadata.is_fallback
    /\ rec.metadata.error # NoError

\* which of the four steps of the last get_recommendation call threw
Step1Failed == lastCall.faults.profile
Step2Failed == ~Step1Failed /\ lastCall.faults.metrics
Step3Failed == ~Step1Failed /\ lastCall.dialog_given /\ lastCall.faults.session
Step4Failed ==
    ~Step1Failed /\ (current_strategy \notin strategy_registry \/ lastCall.faults.strategy)

C3_UnimplementedStrategyRaises ==
    (/\ lastCall.op = "get_recommendation"
     /\ current_strategy \notin strategy_registry)
        => /\ lastCall.raised = "StrategyNotFoundError"
           /\ lastCall.rec = NoRecommendation

\* C4 as claimed: after set_strategy calls the active strategy is registered.
C4_ActiveStrategyRegistered ==
    lastCall.op = "set_strategy" => current_strategy \in strategy_registry

\* C4 amended: set_strategy with an unregistered strategy raises
\* StrategyNotFoundError and leaves current_strategy unchanged; with a
\* registered one it makes it current; so the active strategy is always a
\* registered one or still the one the engine was constructed with.
C4_SetStrategyGuarded ==
    /\ lastCall.op = "set_strategy" =>
           IF lastCall.strategy_arg \in strategy_registry
           THEN /\ lastCall.raised = NoError
                /\ current_strategy = lastCall.strategy_arg
           ELSE /\ lastCall.raised = "StrategyNotFoundError"
                /\ current_strategy = lastCall.prev_strategy
    /\ current_strategy \in strategy_registry \cup {default_strategy}

C4_Witness ==
    /\ lastCall.op = "set_strategy"
    /\ lastCall.strategy_arg = "policy"
    /\ lastCall.raised = "StrategyNotFoundError"
    /\ lastCall.prev_strategy = "rules"
    /\ current_strategy = "rules"

-----------------------------------------------------------------------------
(* app/models/content.py, app/services/content_service.py *)

Range(s) == {s[i] : i \in 1..Len(s)}

ContentItem(id, topic, difficulty, format, type) ==
    [content_id |-> id, topic |-> topic, difficulty_level |-> difficulty,
     format |-> format, content_type |-> type]

\* "no row": what .first() gives on an empty result
NoContent == ContentItem(0, None, None, None, None)

\* the exception text, or NoError; a filter that is not given (None) is not looked at
validate_filter_values(difficulty, format) ==
    IF difficulty # None /\ difficulty \notin DIFFICULTY_LEVELS
    THEN "InvalidFilterError: Invalid difficulty"
    ELSE IF format # None /\ format \notin FORMATS
    THEN "InvalidFilterError: Invalid format"
    ELSE NoError

FilterMatches(cat, topic, difficulty, format) ==
    {c \in cat : /\ (topic # None => c.topic = topic)
                 /\ (difficulty # None => c.difficulty_level = difficulty)
                 /\ (format # None => c.format = format)}

\* offset(0).limit(limit) of a query without ORDER BY: any limit rows of the result
Pages(matches, limit) ==
    IF Cardinality(matches) <= limit THEN {matches}
    ELSE {P \in SUBSET matches : Cardinality(P) = limit}

\* the outcomes the call can have: the exception, or one of the pages
get_content_by_filters(cat, topic, difficulty, format, limit) ==
    LET err == validate_filter_values(difficulty, format)
    IN IF err # NoError THEN {Raise(err)}
       ELSE {Return(P) : P \in Pages(FilterMatches(cat, topic, difficulty, format),
                                     Min(limit, 100))}

\* a random pick that takes "normal" for a difficulty that is not given
get_random_content_default_normal(cat, topic, difficulty, format) ==
    LET err == validate_filter_values(difficulty, format)
        d == IF difficulty = None THEN DEFAULT_DIFFICULTY ELSE difficulty
    IN [raised |-> err,
        rows |-> IF err # NoError THEN {} ELSE FilterMatches(cat, topic, d, format)]

\* ORDER BY random() LIMIT 1: rows holds the rows .first() can give, none if empty
get_random_content(cat, topic, difficulty, format) ==
    LET err == validate_filter_values(difficulty, format)
    IN [raised |-> err,
        rows |-> IF err # NoError THEN {}
                 ELSE FilterMatches(cat, topic, difficulty, format)]

-----------------------------------------------------------------------------
(* app/services/recommendation_service.py *)

\* a message row: sender_type, and extra_data's content_id if it has one
MessageRow(sender, cid) == [sender_type |-> sender, content_id |-> cid]

\* the content ids of the newest limit messages (newest first)
get_recently_shown_content(msgs, limit) ==
    LET recent_messages == Reverse(LastN(msgs, limit))
        with_content == SelectSeq(recent_messages, LAMBDA msg : msg.content_id # <<>>)
    IN [i \in 1..Len(with_content) |-> with_content[i].content_id[1]]

\* the topic of the dialog first
determine_topic_focus_dialog_first(adaptation_rec, dlg, dialog_given) ==
    IF dialog_given /\ dlg.exists /\ dlg.topic # None
    THEN dlg.topic
    ELSE IF Len(adaptation_rec.remediation.topics) > 0
    THEN adaptation_rec.remediation.topics[1]
    ELSE None

determine_topic_focus(adaptation_rec, dlg, dialog_given) ==
    IF Len(adaptation_rec.remediation.topics) > 0
    THEN adaptation_rec.remediation.topics[1]
    ELSE IF dialog_given /\ dlg.exists /\ dlg.topic # None
    THEN dlg.topic
    ELSE None

query_content_with_exclusions(cat, topic, difficulty, format, exclude_ids, limit) ==
    {IF ~r.ok THEN r
     ELSE Return({item \in r.val : item.content_id \notin exclude_ids}) :
        r \in get_content_by_filters(cat, topic, difficulty, format, limit)}

\* the score without the random term, in halves of a point
RankScore(item, adaptation_rec) ==
    (IF item.difficulty_level = adaptation_rec.difficulty.recommended_difficulty
     THEN 6 ELSE 0)
    + (IF item.format = adaptation_rec.format.recommended_format THEN 4 ELSE 0)
    + (IF item.topic \in Range(adaptation_rec.remediation.topics) THEN 10 ELSE 0)
    + (CASE item.content_type = "exercise" -> 4
         [] item.content_type = "quiz" -> 3
         [] item.content_type = "lesson" -> 2
         [] item.content_type = "explanation" -> 1
         [] OTHER -> 0)

\* the candidates that can come first: random.uniform(-1.0, 1.0) moves a score by
\* less than 2 halves either way, so a candidate less than 4 halves below the best
rank_and_select(candidates, adaptation_rec) ==
    IF Cardinality(candidates) = 1 THEN candidates
    ELSE {c \in candidates :
             \A other \in candidates :
                 RankScore(c, adaptation_rec) + 4 > RankScore(other, adaptation_rec)}

\* the filters of strategy k of _select_best_content
TierDifficulty(k, difficulty) == IF k \in {1, 2} THEN difficulty ELSE None
TierFormat(k, format) == IF k \in {1, 3} THEN format ELSE None

Selected(k, item) == [raised |-> NoError, content |-> item, tier |-> k]
SelectFailed(k, err) == [raised |-> err, content |-> NoContent, tier |-> k]

\* _select_best_content from strategy k on: the results it can give
RECURSIVE select_best_content_from(_, _, _, _, _, _, _)
select_best_content_from(k, cat, topic, difficulty, format, exclude_ids, adaptation_rec) ==
    IF k = 5
    THEN LET content == get_random_content(cat, None, None, None)
         IN IF content.rows = {}
            THEN {SelectFailed(5, "Exception: No content available in database")}
            ELSE {Selected(5, c) : c \in content.rows}
    ELSE IF k > 1 /\ topic = None
    THEN select_best_content_from(k + 1, cat, topic, difficulty, format, exclude_ids,
                                  adaptation_rec)
    ELSE UNION {
        IF ~q.ok THEN {SelectFailed(k, q.err)}
        ELSE IF q.val # {}
        THEN {Selected(k, c) : c \in rank_and_select(q.val, adaptation_rec)}
        ELSE select_best_content_from(k + 1, cat, topic, difficulty, format,
                                      exclude_ids, adaptation_rec) :
        q \in query_content_with_exclusions(cat, topic, TierDifficulty(k, difficulty),
                                            TierFormat(k, format), exclude_ids, 10)}

select_best_content(cat, topic, difficulty, format, exclude_ids, adaptation_rec) ==
    select_best_content_from(1, cat, topic, difficulty, format, exclude_ids, adaptation_rec)

\* exclude_content_ids: <<>> when the caller gives none, <<ids>> when it gives a list
get_next_recommendation(row, table, dlg, msgs, cat, dialog_given, override_difficulty, override_format, exclude_content_ids, t) ==
    LET adaptation_rec == AdaptationEngine_get_recommendation(
                              "rules", row, table, dlg, dialog_given, NoFaults, t).rec
        recommended_difficulty ==
            IF override_difficulty # None THEN override_difficulty
            ELSE adaptation_rec.difficulty.recommended_difficulty
        recommended_format ==
            IF override_format # None THEN override_format
            ELSE adaptation_rec.format.recommended_format
        topic_focus == determine_topic_focus(adaptation_rec, dlg, dialog_given)
        exclude_ids == IF exclude_content_ids = <<>>
                       THEN Range(get_recently_shown_content(msgs, 5))
                       ELSE Range(exclude_content_ids[1])
    IN {[raised |-> o.raised, content |-> o.content, tier |-> o.tier,
         topic |-> topic_focus, difficulty |-> recommended_difficulty,
         format |-> recommended_format, exclude_ids |-> exclude_ids,
         confidence |-> adaptation_rec.overall_confidence,
         strategy_used |-> adaptation_rec.metadata.strategy] :
        o \in select_best_content(cat, topic_focus, recommended_difficulty,
                                  recommended_format, exclude_ids, adaptation_rec)}

-----------------------------------------------------------------------------
(* The recommendation service over a catalog and the user's message history *)

MaxMessages == 1

Item1 == ContentItem(1, "algebra", "normal", "text", "lesson")
Item2 == ContentItem(2, "algebra", "normal", "video", "exercise")
Item3 == ContentItem(3, "calc", "hard", "visual", "quiz")

ServiceCatalogs == {{}, {Item3}, {Item1, Item2}, {Item1, Item3}, {Item1, Item2, Item3}}

ServiceProfileRows ==
    {NoProfileRow,
     ProfileRow(("algebra" :> 2000) @@ ("calc" :> 6000), "normal", None),
     ProfileRow(("algebra" :> 3000) @@ ("calc" :> 1000), "normal", None),
     ProfileRow(EmptyMap, "hard", "video")}

ServiceDialogRows == {NoDialogRow, DialogRow(None, 0), DialogRow("calc", 0)}

\* what a caller can pass: a level, nothing, or a string that is no level
OverrideDifficulties == {None, "easy", "challenge", "expert"}
OverrideFormats == {None, "visual", "audio"}
ExcludeLists == {<<>>, <<<<1, 2>>>>}

NoServiceCall ==
    [op |-> "init", dialog_given |-> FALSE, override_difficulty |-> None,
     override_format |-> None, exclude_content_ids |-> <<>>,
     result |-> [raised |-> NoError, content |-> NoContent, tier |-> 0,
                 topic |-> None, difficulty |-> None, format |-> None,
                 exclude_ids |-> {}, confidence |-> 0, strategy_used |-> None]]

InitService ==
    /\ default_strategy = "rules"
    /\ current_strategy = "rules"
    /\ profileRow \in ServiceProfileRows
    /\ metricsTable = <<>>
    /\ dialogRow \in ServiceDialogRows
    /\ now = 30
    /\ messagesTable = <<>>
    /\ catalog \in ServiceCatalogs
    /\ sessions = <<>>
    /\ lastCall = NoServiceCall

\* POST /messages with sender_type "system": the row is stored, the metrics and
\* recommendation steps are for user messages only
CreateMessage ==
    \E cid \in {<<>>} \cup {<<c.content_id>> : c \in catalog} :
        /\ Len(messagesTable) < MaxMessages
        /\ dialogRow.exists
        /\ messagesTable' = Append(messagesTable, MessageRow("system", cid))
        /\ dialogRow' = [dialogRow EXCEPT !.messages_count = @ + 1]
        /\ UNCHANGED <<default_strategy, current_strategy, profileRow, metricsTable,
                       catalog, now, lastCall, sessions>>

GetNextRecommendation ==
    \E dialog_given \in BOOLEAN, override_difficulty \in OverrideDifficulties,
       override_format \in OverrideFormats, exclude_content_ids \in ExcludeLists :
        \E r \in get_next_recommendation(profileRow, metricsTable, dialogRow,
                                         messagesTable, catalog, dialog_given,
                                         override_difficulty, override_format,
                                         exclude_content_ids, now) :
            /\ lastCall' = [op |-> "get_next_recommendation",
                            dialog_given |-> dialog_given,
                            override_difficulty |-> override_difficulty,
                            override_format |-> override_format,
                            exclude_content_ids |-> exclude_content_ids,
                            result |-> r]
            /\ UNCHANGED <<default_strategy, current_strategy, profileRow, metricsTable,
                           dialogRow, messagesTable, catalog, now, sessions>>

NextService == CreateMessage \/ GetNextRecommendation

SpecService == InitService /\ [][NextService]_vars

-----------------------------------------------------------------------------
(* Claims about the recommendation service *)

ServiceCalled == lastCall.op = "get_next_recommendation"
ServiceReturned == ServiceCalled /\ lastCall.result.raised = NoError

\* the content of the catalog that strategy k of the ladder is after in the last
\* call: it passes the filters of the strategy and is not excluded
TierMatches(k) ==
    {c \in FilterMatches(catalog, lastCall.result.topic,
                         TierDifficulty(k, lastCall.result.difficulty),
                         TierFormat(k, lastCall.result.format)) :
        c.content_id \notin lastCall.result.exclude_ids}

\* C5: content selection returns a candidate of the first of the tiers (i) topic +
\* difficulty + format, (ii) topic + difficulty, (iii) topic + format, (iv) topic only
\* that has a match, for any resolved topic focus; in particular a tier-(ii) match
\* when tier (i) has none, and a random pick only when none of the four has a match.
C5_FirstMatchingTierReturned ==
    ServiceReturned =>
        \A k \in 1..4 :
            (TierMatches(k) # {} /\ \A j \in 1..(k - 1) : TierMatches(j) = {})
                => lastCall.result.content \in TierMatches(k)

\* C6 as stated: get_next_recommendation returns a content item whenever the catalog
\* is non-empty, for every difficulty and format recommended or given as override,
\* every topic focus and every exclusion set, and fails only when the catalog is
\* empty, with the "no content available" error.
C6_AlwaysContentUnlessCatalogEmpty ==
    ServiceCalled =>
        /\ catalog # {} => (ServiceReturned /\ lastCall.result.content \in catalog)
        /\ catalog = {} =>
               lastCall.result.raised = "Exception: No content available in database"

ValidOverrides ==
    /\ lastCall.override_difficulty \in DIFFICULTY_LEVELS \cup {None}
    /\ lastCall.override_format \in FORMATS \cup {None}

\* C6 amended: with overrides that are absent or one of the four difficulty levels
\* and four formats, get_next_recommendation returns an item of the catalog whenever
\* the catalog is non-empty and fails with "No content available in database" when it
\* is empty; an override outside these values makes the call fail with
\* InvalidFilterError whatever the catalog holds.
C6_ContentForValidFilters ==
    ServiceCalled =>
        /\ (ValidOverrides /\ catalog # {}) =>
               (ServiceReturned /\ lastCall.result.content \in catalog)
        /\ (ValidOverrides /\ catalog = {}) =>
               lastCall.result.raised = "Exception: No content available in database"
        /\ lastCall.override_difficulty \notin DIFFICULTY_LEVELS \cup {None} =>
               lastCall.result.raised = "InvalidFilterError: Invalid difficulty"
        /\ (lastCall.override_difficulty \in DIFFICULTY_LEVELS \cup {None}
            /\ lastCall.override_format \notin FORMATS \cup {None}) =>
               lastCall.result.raised = "InvalidFilterError: Invalid format"

\* a call whose four filtered strategies found nothing (the only item that passes the
\* filters is excluded), and which returned an item by the random fallback
C6_Witness ==
    /\ ServiceReturned
    /\ ValidOverrides
    /\ lastCall.override_difficulty = "challenge"
    /\ lastCall.result.topic = "algebra"
    /\ lastCall.result.exclude_ids # {}
    /\ \A k \in 1..4 : TierMatches(k) = {}
    /\ lastCall.result.tier = 5
    /\ lastCall.result.content \in catalog

\* C7: the content returned by get_next_recommendation is not in the exclusion set
\* (the content ids of the user's last 5 messages, or the caller's list) as long as
\* the catalog has an item outside that set.
C7_ReturnedContentNotExcluded ==
    (ServiceReturned
     /\ \E c \in catalog : c.content_id \notin lastCall.result.exclude_ids)
        => lastCall.result.content.content_id \notin lastCall.result.exclude_ids

\* the topics of the stored profile with a mastery below 0.4
StrugglingTopics ==
    {t \in DOMAIN profileRow.topic_mastery : profileRow.topic_mastery[t] < 4000}

\* C16: the topic focus of a recommendation is the weakest remediation topic (lowest
\* mastery among the topics below 0.4) if there is one; otherwise the topic of the
\* given dialog if a dialog is given and has a topic; otherwise none. A dialog topic
\* never overrides a remediation topic. The topic is the one the result reports.
C16_TopicFocusPriority ==
    ServiceCalled =>
        IF StrugglingTopics # {}
        THEN /\ lastCall.result.topic \in StrugglingTopics
             /\ \A t \in StrugglingTopics :
                    profileRow.topic_mastery[lastCall.result.topic]
                        <= profileRow.topic_mastery[t]
        ELSE IF lastCall.dialog_given /\ dialogRow.exists /\ dialogRow.topic # None
        THEN lastCall.result.topic = dialogRow.topic
        ELSE lastCall.result.topic = None

\* a user weak in algebra asks from within a dialog on calc: the focus is algebra
C16_Witness ==
    /\ ServiceReturned
    /\ lastCall.dialog_given
    /\ dialogRow.topic = "calc"
    /\ StrugglingTopics = {"algebra"}
    /\ lastCall.result.topic = "algebra"
    /\ lastCall.result.content.topic = "algebra"

-----------------------------------------------------------------------------
(* app/core/metrics/aggregators.py *)

\* alpha = 0.3 and window_size = 10, the defaults aggregate_metrics is called with
ALPHA_NUM == 3
ALPHA_DEN == 10
WINDOW_SIZE == 10
DEFAULT_ALPHA == [n |-> ALPHA_NUM, d |-> ALPHA_DEN]

\* round() of the fraction n/d to an integer: to the nearest, a tie to the even one
RoundFrac(f) ==
    LET q == f.n \div f.d
        r == f.n % f.d
    IN IF 2 * r < f.d THEN q
       ELSE IF 2 * r > f.d THEN q + 1
       ELSE IF q % 2 = 0 THEN q ELSE q + 1

\* the weights alpha and alpha of 1 - alpha added up
update_topic_mastery_ema_unweighted(current_mastery, new_score, alpha) ==
    [n |-> alpha.n * new_score + alpha.d * current_mastery,
     d |-> alpha.d]

\* alpha * new_score + (1 - alpha) * current_mastery, not yet rounded; alpha is a
\* fraction
update_topic_mastery_ema(current_mastery, new_score, alpha) ==
    [n |-> alpha.n * new_score + (alpha.d - alpha.n) * current_mastery,
     d |-> alpha.d]

\* update_topic_mastery, lines 85-93: the map the session holds after the assignment
topic_mastery_updated(topic_mastery, topic, score, alpha) ==
    LET current_mastery == IF topic \in DOMAIN topic_mastery THEN topic_mastery[topic]
                           ELSE 0
        new_mastery == update_topic_mastery_ema(current_mastery, score, alpha)
    IN [t \in DOMAIN topic_mastery \cup {topic} |->
           IF t = topic THEN RoundFrac(new_mastery) ELSE topic_mastery[t]]

\* a commit that sets the one key in the stored map
mastery_commit_merged(stored, loaded, topic, score, alpha, t) ==
    [stored EXCEPT !.topic_mastery = topic_mastery_updated(stored.topic_mastery, topic, score,
                                                          alpha),
                   !.last_updated = t]

\* update_topic_mastery, line 99: the row after the UPDATE of the commit. stored is
\* the row in the database, loaded the profile object of the session; the whole
\* map of the session replaces the stored one (onupdate sets last_updated)
mastery_commit(stored, loaded, topic, score, alpha, t) ==
    [stored EXCEPT !.topic_mastery = topic_mastery_updated(loaded.topic_mastery, topic, score,
                                                          alpha),
                   !.last_updated = t]

update_response_time_avg(current_avg, new_response_time, interaction_count, window_size) ==
    IF interaction_count = 0 THEN [n |-> new_response_time, d |-> 1]
    ELSE IF interaction_count < window_size
    THEN [n |-> current_avg * interaction_count + new_response_time,
          d |-> interaction_count + 1]
    ELSE [n |-> current_avg * (window_size - 1) + new_response_time, d |-> window_size]

\* a metrics record: topic or None, and optional accuracy, response_time, content_id
MetricsRecord(topic, accuracy, response_time, content_id) ==
    [topic |-> topic, accuracy |-> accuracy, response_time |-> response_time,
     content_id |-> content_id]

\* lines 190-194: the topic of the record, else the topic of its content item
resolve_topic(metrics, cat) ==
    IF metrics.topic # None THEN metrics.topic
    ELSE IF metrics.content_id # <<>>
            /\ \E c \in cat : c.content_id = metrics.content_id[1]
    THEN (CHOOSE c \in cat : c.content_id = metrics.content_id[1]).topic
    ELSE None

updates_mastery(metrics, cat) ==
    resolve_topic(metrics, cat) # None /\ metrics.accuracy # <<>>

\* counts an interaction only when it has a response time
counters_updated_timed_only(loaded, metrics) ==
    IF metrics.response_time = <<>> THEN loaded
    ELSE [loaded EXCEPT
            !.avg_response_time =
                <<RoundFrac(update_response_time_avg(
                      IF loaded.avg_response_time = <<>> THEN 0
                      ELSE loaded.avg_response_time[1],
                      metrics.response_time[1], loaded.total_interactions,
                      WINDOW_SIZE))>>,
            !.total_interactions = @ + 1]

\* lines 206-221: the profile object of the session after the assignments
counters_updated(loaded, metrics) ==
    [loaded EXCEPT
        !.avg_response_time =
            IF metrics.response_time = <<>> THEN @
            ELSE <<RoundFrac(update_response_time_avg(
                       IF @ = <<>> THEN 0 ELSE @[1],
                       metrics.response_time[1], loaded.total_interactions,
                       WINDOW_SIZE))>>,
        !.total_interactions = @ + 1]

\* line 226: the row after the UPDATE of the commit, which sets the columns whose
\* value in the session differs from the value the session loaded
counters_commit(stored, loaded, metrics, t) ==
    LET updated == counters_updated(loaded, metrics)
    IN [stored EXCEPT
          !.avg_response_time =
              IF updated.avg_response_time # loaded.avg_response_time
              THEN updated.avg_response_time ELSE @,
          !.total_interactions = updated.total_interactions,
          !.last_updated = t]

\* what aggregate_metrics returns (lines 229-233)
ProfileStatistics(row) ==
    [topic_mastery |-> row.topic_mastery, avg_response_time |-> row.avg_response_time,
     total_interactions |-> row.total_interactions]

NoStatistics == ProfileStatistics(NoProfileRow)

\* the statement of the call that the database fails at, if any
AggregateFaults == {"none", "query", "mastery_commit", "final_commit"}

\* one call with no other session at work. stored: the user's row before the call;
\* the result: what the call raised, the row after it and what it returned
aggregate_metrics(stored, metrics, cat, fail, t) ==
    IF fail = "query"
    THEN [raised |-> "SQLAlchemyError", stored |-> stored, returned |-> NoStatistics]
    ELSE IF ~stored.exists
    THEN [raised |-> "ValueError: User profile not found", stored |-> stored,
          returned |-> NoStatistics]
    ELSE LET profile == stored
             topic == resolve_topic(metrics, cat)
             after_mastery ==
                 IF updates_mastery(metrics, cat)
                 THEN mastery_commit(stored, profile, topic, metrics.accuracy[1],
                                     DEFAULT_ALPHA, t)
                 ELSE stored
             \* db.refresh(profile), line 100
             refreshed == after_mastery
             after_counters == counters_commit(after_mastery, refreshed, metrics, t)
         IN IF updates_mastery(metrics, cat) /\ fail = "mastery_commit"
            THEN [raised |-> "SQLAlchemyError", stored |-> stored,
                  returned |-> NoStatistics]
            ELSE IF fail = "final_commit"
            THEN [raised |-> "SQLAlchemyError", stored |-> after_mastery,
                  returned |-> NoStatistics]
            ELSE [raised |-> NoError, stored |-> after_counters,
                  returned |-> ProfileStatistics(after_counters)]

\* app/core/metrics/workflow.py: the row after create_user_profile_if_missing
create_user_profile_if_missing(stored, t) ==
    IF stored.exists THEN stored
    ELSE [exists |-> TRUE, topic_mastery |-> EmptyMap, current_difficulty |-> "normal",
          preferred_format |-> None, learning_pace |-> "medium",
          avg_response_time |-> <<0>>, total_interactions |-> 0, last_updated |-> t]

-----------------------------------------------------------------------------
(* The aggregator, one call at a time *)

\* aggregate_metrics calls in a run
MaxCalls == 3

AggregatorProfileRows ==
    {NoProfileRow,
     ProfileRow(EmptyMap, "normal", None),
     ProfileRow(("algebra" :> 5000) @@ ("calc" :> 2000), "normal", None)}

AggregatorMetrics ==
    {MetricsRecord("algebra", <<10000>>, <<2500>>, <<1>>),
     MetricsRecord("calc", <<0>>, <<>>, <<>>),
     MetricsRecord(None, <<10000>>, <<3500>>, <<1>>),
     MetricsRecord(None, <<0>>, <<2500>>, <<9>>),
     MetricsRecord(None, <<>>, <<>>, <<>>)}

NoAggregatorCall ==
    [op |-> "init", calls |-> 0, metrics |-> MetricsRecord(None, <<>>, <<>>, <<>>),
     fail |-> "none", raised |-> NoError, before |-> NoProfileRow,
     returned |-> NoStatistics]

InitAggregator ==
    /\ default_strategy = "rules"
    /\ current_strategy = "rules"
    /\ profileRow \in AggregatorProfileRows
    /\ metricsTable = <<>>
    /\ dialogRow = NoDialogRow
    /\ now = 30
    /\ messagesTable = <<>>
    /\ catalog = {Item1}
    /\ sessions = <<>>
    /\ lastCall = [NoAggregatorCall EXCEPT !.before = profileRow]

CreateUserProfileIfMissing ==
    /\ profileRow' = create_user_profile_if_missing(profileRow, now)
    /\ lastCall' = [NoAggregatorCall EXCEPT !.op = "create_user_profile_if_missing",
                                            !.calls = lastCall.calls,
                                            !.before = profileRow]
    /\ UNCHANGED <<default_strategy, current_strategy, metricsTable, dialogRow,
                   messagesTable, catalog, now, sessions>>

AggregateMetrics ==
    \E metrics \in AggregatorMetrics, fail \in AggregateFaults :
        LET r == aggregate_metrics(profileRow, metrics, catalog, fail, now)
        IN /\ lastCall.calls < MaxCalls
           /\ profileRow' = r.stored
           /\ lastCall' = [op |-> "aggregate_metrics", calls |-> lastCall.calls + 1,
                           metrics |-> metrics, fail |-> fail, raised |-> r.raised,
                           before |-> profileRow, returned |-> r.returned]
           /\ UNCHANGED <<default_strategy, current_strategy, metricsTable, dialogRow,
                          messagesTable, catalog, now, sessions>>

NextAggregator == CreateUserProfileIfMissing \/ AggregateMetrics

SpecAggregator == InitAggregator /\ [][NextAggregator]_vars

-----------------------------------------------------------------------------
(* Claims about the aggregator, one call at a time *)

AggregateCalled == lastCall.op = "aggregate_metrics"
AggregateSucceeded == AggregateCalled /\ lastCall.raised = NoError

\* C8: each successful aggregate_metrics call increases total_interactions by exactly
\* 1, whatever of accuracy, response_time and topic the metrics record holds, and no
\* step of a sequence of aggregations (lastCall.before is the row before the last
\* step) decreases it.
C8_TotalInteractionsCounts ==
    /\ profileRow.total_interactions >= lastCall.before.total_interactions
    /\ AggregateSucceeded =>
           /\ profileRow.total_interactions = lastCall.before.total_interactions + 1
           /\ lastCall.returned.total_interactions = profileRow.total_interactions

\* the third interaction of a user, with a record that has no accuracy, no response
\* time and no topic
C8_Witness ==
    /\ AggregateSucceeded
    /\ lastCall.metrics = MetricsRecord(None, <<>>, <<>>, <<>>)
    /\ lastCall.before.total_interactions = 2
    /\ profileRow.total_interactions = 3
    /\ profileRow.topic_mastery = lastCall.before.topic_mastery

\* C9: aggregate_metrics persists topic mastery, avg_response_time, total_interactions
\* and last_updated in one transaction: a call that fails leaves the stored profile as
\* it was, so the mastery update of an interaction is never stored without its
\* total_interactions increment.
C9_FailedCallPersistsNothing ==
    (AggregateCalled /\ lastCall.raised # NoError) => profileRow = lastCall.before

-----------------------------------------------------------------------------
(* The aggregator called by two request handlers for the same user. Each handler
   has its own SQLAlchemy session; a session keeps the profile object it loaded
   until it commits and refreshes it, and a commit writes the columns the session
   changed. The statements of a call are the steps. *)

Handlers == {1, 2}

ConcurrentProfileRows ==
    {NoProfileRow,
     ProfileRow(EmptyMap, "normal", None),
     ProfileRow(("algebra" :> 5000) @@ ("calc" :> 2000), "normal", None)}

ConcurrentMetrics ==
    {MetricsRecord("algebra", <<10000>>, <<2500>>, <<>>),
     MetricsRecord("calc", <<0>>, <<3500>>, <<>>),
     MetricsRecord(None, <<>>, <<2500>>, <<>>)}

\* pc: the statement the handler is at; profile: the object its session holds;
\* read_first: it loaded the profile before any commit of either handler
IdleSession ==
    [pc |-> "idle", metrics |-> MetricsRecord(None, <<>>, <<>>, <<>>),
     profile |-> NoProfileRow, read_first |-> FALSE, raised |-> NoError,
     returned |-> NoStatistics]

\* the log of the run: the row at the start, the commits so far and the handlers
\* in the order of their topic_mastery commits
NoConcurrentCall ==
    [op |-> "init", handler |-> 0, initial |-> NoProfileRow, commits |-> 0,
     mastery_writers |-> <<>>]

InitConcurrent ==
    /\ default_strategy = "rules"
    /\ current_strategy = "rules"
    /\ profileRow \in ConcurrentProfileRows
    /\ metricsTable = <<>>
    /\ dialogRow = NoDialogRow
    /\ now = 30
    /\ messagesTable = <<>>
    /\ catalog = {Item1}
    /\ sessions = [h \in Handlers |-> IdleSession]
    /\ lastCall = [NoConcurrentCall EXCEPT !.initial = profileRow]

UnchangedByAggregator ==
    UNCHANGED <<default_strategy, current_strategy, metricsTable, dialogRow,
                messagesTable, catalog, now>>

\* aggregate_metrics lines 184-187: the session loads the profile
ReadProfile(h) ==
    \E metrics \in ConcurrentMetrics :
        /\ sessions[h].pc = "idle"
        /\ sessions' = [sessions EXCEPT ![h] =
               IF profileRow.exists
               THEN [IdleSession EXCEPT !.pc = "read", !.metrics = metrics,
                                        !.profile = profileRow,
                                        !.read_first = (lastCall.commits = 0)]
               ELSE [IdleSession EXCEPT !.pc = "failed", !.metrics = metrics,
                                        !.raised = "ValueError: User profile not found"]]
        /\ lastCall' = [lastCall EXCEPT !.op = "read", !.handler = h]
        /\ UNCHANGED profileRow
        /\ UnchangedByAggregator

\* update_topic_mastery lines 79-99: the query gives the object the session already
\* holds, the map is changed and committed
MasteryCommit(h) ==
    LET s == sessions[h]
        topic == resolve_topic(s.metrics, catalog)
    IN /\ s.pc = "read"
       /\ updates_mastery(s.metrics, catalog)
       /\ profileRow' = mastery_commit(profileRow, s.profile, topic, s.metrics.accuracy[1],
                                      DEFAULT_ALPHA, now)
       /\ sessions' = [sessions EXCEPT ![h].pc = "mastery_committed"]
       /\ lastCall' = [lastCall EXCEPT !.op = "mastery_commit", !.handler = h,
                                       !.commits = @ + 1,
                                       !.mastery_writers = Append(@, h)]
       /\ UnchangedByAggregator

\* update_topic_mastery line 100: db.refresh(profile)
MasteryRefresh(h) ==
    /\ sessions[h].pc = "mastery_committed"
    /\ sessions' = [sessions EXCEPT ![h].pc = "refreshed", ![h].profile = profileRow]
    /\ lastCall' = [lastCall EXCEPT !.op = "mastery_refresh", !.handler = h]
    /\ UNCHANGED profileRow
    /\ UnchangedByAggregator

\* aggregate_metrics lines 206-226: the counters are set on the object and committed
CountersCommit(h) ==
    LET s == sessions[h]
    IN /\ \/ s.pc = "refreshed"
          \/ s.pc = "read" /\ ~updates_mastery(s.metrics, catalog)
       /\ profileRow' = counters_commit(profileRow, s.profile, s.metrics, now)
       /\ sessions' = [sessions EXCEPT ![h].pc = "committed"]
       /\ lastCall' = [lastCall EXCEPT !.op = "counters_commit", !.handler = h,
                                       !.commits = @ + 1]
       /\ UnchangedByAggregator

\* aggregate_metrics lines 227-233: db.refresh(profile) and the return
ReturnStatistics(h) ==
    /\ sessions[h].pc = "committed"
    /\ sessions' = [sessions EXCEPT ![h].pc = "done", ![h].profile = profileRow,
                                    ![h].returned = ProfileStatistics(profileRow)]
    /\ lastCall' = [lastCall EXCEPT !.op = "return", !.handler = h]
    /\ UNCHANGED profileRow
    /\ UnchangedByAggregator

NextConcurrent ==
    \E h \in Handlers :
        \/ ReadProfile(h)
        \/ MasteryCommit(h)
        \/ MasteryRefresh(h)
        \/ CountersCommit(h)
        \/ ReturnStatistics(h)

SpecConcurrent == InitConcurrent /\ [][NextConcurrent]_vars

-----------------------------------------------------------------------------
(* Claims about concurrent aggregation *)

BothDone == \A h \in Handlers : sessions[h].pc = "done"
BothReadFirst == \A h \in Handlers : sessions[h].read_first

\* the one topic_mastery update of handler h applied to the map m
MasteryUpdateOf(h, m) ==
    topic_mastery_updated(m, resolve_topic(sessions[h].metrics, catalog),
                          sessions[h].metrics.accuracy[1], DEFAULT_ALPHA)

\* C10: nothing serializes two aggregate_metrics calls for the same user. When both
\* have read the profile before either has written, the later topic_mastery write
\* replaces the whole map, so the stored map holds the later writer's update alone
\* (the earlier writer's update is lost, there is no per-topic merge); and two calls
\* that go from their first read to the counters count one interaction only.
C10_InterleavedUpdateLost ==
    (BothDone /\ BothReadFirst) =>
        /\ Len(lastCall.mastery_writers) = 2 =>
               profileRow.topic_mastery =
                   MasteryUpdateOf(lastCall.mastery_writers[2],
                                   lastCall.initial.topic_mastery)
        /\ Len(lastCall.mastery_writers) = 0 =>
               profileRow.total_interactions = lastCall.initial.total_interactions + 1
        /\ profileRow.total_interactions \in
               {lastCall.initial.total_interactions + 1,
                lastCall.initial.total_interactions + 2}

\* both calls returned, for different topics; the stored map has no entry for the
\* topic of the first writer, and one interaction is counted
C10_Witness ==
    /\ BothDone
    /\ BothReadFirst
    /\ Len(lastCall.mastery_writers) = 2
    /\ lastCall.initial.topic_mastery = EmptyMap
    /\ sessions[lastCall.mastery_writers[1]].metrics.topic = "algebra"
    /\ sessions[lastCall.mastery_writers[2]].metrics.topic = "calc"
    /\ DOMAIN profileRow.topic_mastery = {"calc"}
    /\ profileRow.total_interactions = lastCall.initial.total_interactions + 1


-----------------------------------------------------------------------------
(* update_topic_mastery called on its own, with any smoothing factor *)

\* the result: what the call raised, the row after it and the new mastery it
\* returned, which is the value before rounding
update_topic_mastery(stored, topic, score, alpha, fail, t) ==
    IF ~stored.exists
    THEN [raised |-> "ValueError: User profile not found", stored |-> stored,
          returned |-> [n |-> 0, d |-> 1]]
    ELSE IF fail = "mastery_commit"
    THEN [raised |-> "SQLAlchemyError", stored |-> stored,
          returned |-> [n |-> 0, d |-> 1]]
    ELSE LET profile == stored
             current_mastery == IF topic \in DOMAIN profile.topic_mastery
                                THEN profile.topic_mastery[topic] ELSE 0
         IN [raised |-> NoError,
             stored |-> mastery_commit(stored, profile, topic, score, alpha, t),
             returned |-> update_topic_mastery_ema(current_mastery, score, alpha)]

MasteryTopics == {"algebra", "geometry"}
MasteryScores == {0, 5000, 10000}
MasteryAlphas == {[n |-> 0, d |-> 1], DEFAULT_ALPHA, [n |-> 1, d |-> 1]}

UpdateTopicMastery ==
    \E topic \in MasteryTopics, score \in MasteryScores, alpha \in MasteryAlphas,
       fail \in {"none", "mastery_commit"} :
        LET r == update_topic_mastery(profileRow, topic, score, alpha, fail, now)
        IN /\ lastCall.calls < MaxCalls
           /\ profileRow' = r.stored
           /\ lastCall' = [op |-> "update_topic_mastery", calls |-> lastCall.calls + 1,
                           metrics |-> MetricsRecord(topic, <<score>>, <<>>, <<>>),
                           fail |-> fail, raised |-> r.raised, before |-> profileRow,
                           returned |-> NoStatistics, alpha |-> alpha,
                           new_mastery |-> r.returned]
           /\ UNCHANGED <<default_strategy, current_strategy, metricsTable, dialogRow,
                          messagesTable, catalog, now, sessions>>

NextMastery == CreateUserProfileIfMissing \/ AggregateMetrics \/ UpdateTopicMastery

SpecMastery == InitAggregator /\ [][NextMastery]_vars

InUnitInterval(f) == 0 <= f.n /\ f.n <= 10000 * f.d

MasteryUpdated == lastCall.op = "update_topic_mastery" /\ lastCall.raised = NoError

-----------------------------------------------------------------------------
(* get_difficulty_change applied again and again, and decide_difficulty on windows
   of metric rows *)

MaxChanges == 5

AccuracyRows(values) == [i \in 1..Len(values) |-> MetricRow("accuracy", values[i])]
ResponseTimeRows(values) == [i \in 1..Len(values) |-> MetricRow("response_time", values[i])]

DifficultyAccuracies ==
    {<<>>, <<3000>>, <<5000>>, <<9000>>, <<10000, 6000>>, <<9000, 9000, 7000>>,
     <<10000, 10000, 10000, 10000, 5000>>}

DifficultyResponseTimes ==
    {<<>>, <<20>>, <<90>>, <<120>>, <<150>>, <<100, 141>>, <<20, 20, 20, 20, 20>>}

NoDifficultyDecision ==
    [recommended_difficulty |-> None, confidence |-> 0, reasoning |-> None,
     change_from_current |-> 0]

NoDifficultyCall ==
    [op |-> "init", current |-> None, change |-> 0, result |-> None, steps |-> 0,
     run |-> 0, run_start |-> None, recent_metrics |-> <<>>,
     decision |-> NoDifficultyDecision]

InitDifficulty ==
    /\ default_strategy = "rules"
    /\ current_strategy = "rules"
    /\ profileRow \in {ProfileRow(EmptyMap, d, None) : d \in DIFFICULTY_LEVELS}
    /\ metricsTable = <<>>
    /\ dialogRow = NoDialogRow
    /\ now = 30
    /\ messagesTable = <<>>
    /\ catalog = {}
    /\ sessions = <<>>
    /\ lastCall = [NoDifficultyCall EXCEPT !.result = profileRow.current_difficulty]

\* one more call of get_difficulty_change, on the level the last call gave; run
\* counts the calls in a row with the same change, run_start is the level they
\* started from
GetDifficultyChange ==
    \E change \in {-1, 0, 1} :
        LET current == lastCall.result
            continues == lastCall.op = "get_difficulty_change" /\ lastCall.change = change
        IN /\ lastCall.steps < MaxChanges
           /\ lastCall' = [NoDifficultyCall EXCEPT
                               !.op = "get_difficulty_change",
                               !.current = current,
                               !.change = change,
                               !.result = get_difficulty_change(current, change),
                               !.steps = lastCall.steps + 1,
                               !.run = IF continues THEN lastCall.run + 1 ELSE 1,
                               !.run_start = IF continues THEN lastCall.run_start
                                             ELSE current]
           /\ UNCHANGED <<default_strategy, current_strategy, profileRow, metricsTable,
                          dialogRow, messagesTable, catalog, now, sessions>>

DecideDifficulty ==
    \E accuracies \in DifficultyAccuracies, response_times \in DifficultyResponseTimes :
        LET recent_metrics == AccuracyRows(accuracies) \o ResponseTimeRows(response_times)
            user_profile == fetch_user_profile(profileRow, FALSE).val
            decision == decide_difficulty(user_profile, build_metrics_summary(recent_metrics))
        IN /\ lastCall' = [NoDifficultyCall EXCEPT
                               !.op = "decide_difficulty",
                               !.current = user_profile.current_difficulty,
                               !.change = decision.change_from_current,
                               !.result = decision.recommended_difficulty,
                               !.steps = lastCall.steps,
                               !.recent_metrics = recent_metrics,
                               !.decision = decision]
           /\ UNCHANGED <<default_strategy, current_strategy, profileRow, metricsTable,
                          dialogRow, messagesTable, catalog, now, sessions>>

NextDifficulty == GetDifficultyChange \/ DecideDifficulty

SpecDifficulty == InitDifficulty /\ [][NextDifficulty]_vars

DifficultyChanged == lastCall.op = "get_difficulty_change"
DifficultyDecided == lastCall.op = "decide_difficulty"

DecidedAccuracies == MetricValues(lastCall.recent_metrics, "accuracy")
DecidedResponseTimes == MetricValues(lastCall.recent_metrics, "response_time")
DecidedAccuracySum ==
    IF DecidedAccuracies = <<>> THEN 5000 ELSE SumSeq(DecidedAccuracies)
DecidedAccuracyCount == Max(1, Len(DecidedAccuracies))
DecidedResponseTimeSum ==
    IF DecidedResponseTimes = <<>> THEN 60 ELSE SumSeq(DecidedResponseTimes)
DecidedResponseTimeCount == Max(1, Len(DecidedResponseTimes))
DecidedSampleSize == Max(Len(DecidedAccuracies), Len(DecidedResponseTimes))

DecidedIncrease ==
    /\ DecidedAccuracySum >= 8000 * DecidedAccuracyCount
    /\ DecidedResponseTimeSum < 90 * DecidedResponseTimeCount

DecidedDecrease ==
    \/ DecidedAccuracySum < 5000 * DecidedAccuracyCount
    \/ DecidedResponseTimeSum > 120 * DecidedResponseTimeCount

OneLevelLower(d) ==
    CASE d = "easy" -> "easy"
      [] d = "normal" -> "easy"
      [] d = "hard" -> "normal"
      [] d = "challenge" -> "hard"

-----------------------------------------------------------------------------
(* app/core/metrics/synchronous.py: store_metrics, and the engine on the history of
   metric rows it leaves. The rows of one interaction have the timestamp of its
   message; response times of metric rows are in seconds. *)

\* the dict compute_synchronous_metrics returns; accuracy and response_time are
\* optional
SyncMetrics(content_id, topic, accuracy, response_time, attempts_count, followups_count, timestamp) ==
    [content_id |-> content_id, topic |-> topic, accuracy |-> accuracy,
     response_time |-> response_time, attempts_count |-> attempts_count,
     followups_count |-> followups_count, timestamp |-> timestamp]

StoredMetric(name, v, timestamp) ==
    [metric_name |-> name, metric_value_f |-> <<v>>, timestamp |-> timestamp]

\* the table after store_metrics: one row per metric that is not None
store_metrics(table, metrics) ==
    table
    \o (IF metrics.accuracy # <<>>
        THEN <<StoredMetric("accuracy", metrics.accuracy[1], metrics.timestamp)>>
        ELSE <<>>)
    \o (IF metrics.response_time # <<>>
        THEN <<StoredMetric("response_time", metrics.response_time[1], metrics.timestamp)>>
        ELSE <<>>)
    \o <<StoredMetric("attempts_count", metrics.attempts_count, metrics.timestamp),
         StoredMetric("followups_count", metrics.followups_count, metrics.timestamp)>>

\* the elements of a set of numbers in ascending order
Ascending(S) ==
    CHOOSE f \in [1..Cardinality(S) -> S] :
        \A i, j \in 1..Cardinality(S) : i < j => f[i] < f[j]

\* ORDER BY timestamp leaves the order of rows with equal timestamps to the
\* database. G are the rows that share the timestamp of the oldest row within the
\* limit; any subset of G of the right size can be the part of G within the limit.
\* The result is the set of orders of the table, one for each such subset.
TieOrders(table, limit) ==
    IF Len(table) <= limit THEN {table}
    ELSE LET first == Len(table) - limit + 1
             G == {i \in 1..Len(table) : table[i].timestamp = table[first].timestamp}
             within == {i \in G : i >= first}
             positions == Ascending(G)
         IN {LET order == Ascending(G \ S) \o Ascending(S)
             IN [i \in 1..Len(table) |->
                    IF i \in G
                    THEN table[order[CHOOSE j \in 1..Len(positions) : positions[j] = i]]
                    ELSE table[i]] :
             S \in {T \in SUBSET G : Cardinality(T) = Cardinality(within)}}

MaxInteractions == 5

\* accuracy and response time (seconds) of an interaction
InteractionKinds ==
    {<<9000, 20>>, <<10000, 20>>, <<6000, 20>>, <<9000, 140>>}

NoHistoryCall ==
    [op |-> "init", table |-> <<>>, raised |-> NoError, rec |-> NoRecommendation]

InitHistory ==
    /\ default_strategy = "rules"
    /\ current_strategy = "rules"
    /\ profileRow \in {ProfileRow(EmptyMap, d, None) : d \in DIFFICULTY_LEVELS}
    /\ metricsTable = <<>>
    /\ dialogRow = NoDialogRow
    /\ now = 30
    /\ messagesTable = <<>>
    /\ catalog = {}
    /\ sessions = <<>>
    /\ lastCall = NoHistoryCall

Interactions(table) == IF table = <<>> THEN 0 ELSE table[Len(table)].timestamp

\* the metrics of one more interaction are stored
StoreMetrics ==
    \E kind \in InteractionKinds :
        /\ Interactions(metricsTable) < MaxInteractions
        /\ metricsTable' =
               store_metrics(metricsTable,
                             SyncMetrics(<<1>>, None, <<kind[1]>>, <<kind[2]>>, 1, 0,
                                         Interactions(metricsTable) + 1))
        /\ lastCall' = [NoHistoryCall EXCEPT !.op = "store_metrics"]
        /\ UNCHANGED <<default_strategy, current_strategy, profileRow, dialogRow,
                       messagesTable, catalog, now, sessions>>

\* AdaptationEngine.get_recommendation without a dialog; table is the order in which
\* the database ranks the rows
GetRecommendationOnHistory ==
    \E table \in TieOrders(metricsTable, 10) :
        LET r == AdaptationEngine_get_recommendation(
                     current_strategy, profileRow, table, dialogRow, FALSE, NoFaults, now)
        IN /\ lastCall' = [op |-> "get_recommendation", table |-> table,
                           raised |-> r.raised, rec |-> r.rec]
           /\ UNCHANGED <<default_strategy, current_strategy, profileRow, metricsTable,
                          dialogRow, messagesTable, catalog, now, sessions>>

NextHistory == StoreMetrics \/ GetRecommendationOnHistory

SpecHistory == InitHistory /\ [][NextHistory]_vars

RecommendedOnHistory == lastCall.op = "get_recommendation" /\ lastCall.raised = NoError

\* the average of the values of the rows named name is avg
AverageIs(rows, name, avg) ==
    LET values == MetricValues(rows, name)
    IN values # <<>> /\ SumSeq(values) = avg * Len(values)

\* the 10 most recent metric rows in the order the database ranked them
RecentWindow == LastN(lastCall.table, 10)

-----------------------------------------------------------------------------
(* app/core/metrics/synchronous.py: compute_accuracy. A string is the sequence of
   its characters; a reference answer is None, a string, a mapping or a list. *)

LowerChar(c) ==
    CASE c = "A" -> "a"
      [] c = "B" -> "b"
      [] c = "N" -> "n"
      [] OTHER -> c

\* str.lower()
Lower(s) == [i \in 1..Len(s) |-> LowerChar(s[i])]

RECURSIVE LStrip(_)
LStrip(s) == IF s # <<>> /\ Head(s) = " " THEN LStrip(Tail(s)) ELSE s

\* str.strip()
Strip(s) == Reverse(LStrip(Reverse(LStrip(s))))

PyNone == [kind |-> "none"]
PyStr(s) == [kind |-> "str", chars |-> s]
\* a mapping; a key that is missing has the value PyNone, which is what .get gives
PyDict(answer, value, correct) ==
    [kind |-> "dict", answer |-> answer, value |-> value, correct |-> correct]
PyList(items) == [kind |-> "list", items |-> items]

\* bool(v)
Truthy(v) ==
    CASE v.kind = "none" -> FALSE
      [] v.kind = "str" -> v.chars # <<>>
      [] v.kind = "list" -> v.items # <<>>
      [] v.kind = "dict" -> TRUE

\* a or b
PyOr(a, b) == IF Truthy(a) THEN a ELSE b

\* str(v) of None or a string
PyToStr(v) == IF v.kind = "none" THEN <<"N", "o", "n", "e">> ELSE v.chars

\* lines 51-58: the score for a list of acceptable answers
list_accuracy(user_answer, items) ==
    LET unwrapped(ans) == IF ans.kind = "dict" THEN PyOr(ans.answer, ans.value) ELSE ans
    IN IF \E i \in 1..Len(items) :
              Lower(Strip(user_answer)) = Lower(Strip(PyToStr(unwrapped(items[i]))))
       THEN 10000 ELSE 0

\* what the call raised and the score it returned, 1.0 being 10000
compute_accuracy(user_answer, correct_answer, answer_type) ==
    LET unwrapped == IF correct_answer.kind = "dict"
                     THEN PyOr(PyOr(correct_answer.answer, correct_answer.value),
                               correct_answer.correct)
                     ELSE correct_answer
        correct_answer_str == IF unwrapped.kind = "none" THEN <<>> ELSE PyToStr(unwrapped)
    IN IF unwrapped.kind = "list"
       THEN [raised |-> NoError, returned |-> <<list_accuracy(user_answer, unwrapped.items)>>]
       ELSE IF answer_type = "binary"
       THEN [raised |-> NoError,
             returned |-> <<IF Lower(Strip(user_answer)) = Lower(Strip(correct_answer_str))
                            THEN 10000 ELSE 0>>]
       ELSE IF answer_type = "exact"
       THEN [raised |-> NoError,
             returned |-> <<IF Strip(user_answer) = Strip(correct_answer_str)
                            THEN 10000 ELSE 0>>]
       ELSE IF answer_type = "partial"
       THEN [raised |-> NoError,
             returned |-> <<IF Lower(Strip(user_answer)) = Lower(Strip(correct_answer_str))
                            THEN 10000 ELSE 0>>]
       ELSE [raised |-> "ValueError: Unknown answer_type", returned |-> <<>>]


AccuracyChars == {" ", "a", "A", "b"}

UserAnswers ==
    SeqsUpTo(AccuracyChars, 2) \cup {<<" ", "A", " ">>, <<"N", "o", "n", "e">>}

ReferenceStrings == {<<"a">>, <<"A">>, <<" ", "a">>, <<"b">>}

ReferenceAnswers ==
    {PyNone}
    \cup {PyStr(s) : s \in ReferenceStrings}
    \cup {PyDict(PyStr(s), PyNone, PyNone) : s \in ReferenceStrings}
    \cup {PyDict(PyNone, PyStr(<<"A">>), PyNone), PyDict(PyNone, PyNone, PyStr(<<"a">>)),
          PyDict(PyStr(<<>>), PyStr(<<"b">>), PyNone), PyDict(PyNone, PyNone, PyNone)}
    \cup {PyList(<<>>),
          PyList(<<PyStr(<<"A">>), PyStr(<<"b">>)>>),
          PyList(<<PyStr(<<"b">>), PyDict(PyStr(<<" ", "a">>), PyNone, PyNone)>>),
          PyList(<<PyDict(PyNone, PyStr(<<"A">>), PyNone)>>),
          PyList(<<PyDict(PyNone, PyNone, PyStr(<<"a">>))>>)}

AnswerTypes == {"binary", "exact", "partial", "fuzzy"}

NoAccuracyCall ==
    [op |-> "init", user_answer |-> <<>>, correct_answer |-> PyNone,
     answer_type |-> "binary", raised |-> NoError, returned |-> <<>>]

InitAccuracy ==
    /\ default_strategy = "rules"
    /\ current_strategy = "rules"
    /\ profileRow = NoProfileRow
    /\ metricsTable = <<>>
    /\ dialogRow = NoDialogRow
    /\ now = 30
    /\ messagesTable = <<>>
    /\ catalog = {}
    /\ sessions = <<>>
    /\ lastCall = NoAccuracyCall

ComputeAccuracy ==
    \E user_answer \in UserAnswers, correct_answer \in ReferenceAnswers,
       answer_type \in AnswerTypes :
        LET r == compute_accuracy(user_answer, correct_answer, answer_type)
        IN /\ lastCall' = [op |-> "compute_accuracy", user_answer |-> user_answer,
                           correct_answer |-> correct_answer,
                           answer_type |-> answer_type,
                           raised |-> r.raised, returned |-> r.returned]
           /\ UNCHANGED <<default_strategy, current_strategy, profileRow, metricsTable,
                          dialogRow, messagesTable, catalog, now, sessions>>

NextAccuracy == ComputeAccuracy

SpecAccuracy == InitAccuracy /\ [][NextAccuracy]_vars

AccuracyComputed == lastCall.op = "compute_accuracy"

\* a mapping unwrapped through its answer, value or correct key; a scalar as it is
UnwrappedReference(v) ==
    IF v.kind = "dict" THEN PyOr(PyOr(v.answer, v.value), v.correct) ELSE v

\* the answer equals the reference, case-insensitively after trimming
MatchesReference(user_answer, v) ==
    LET ref == UnwrappedReference(v)
    IN Lower(Strip(user_answer))
           = Lower(Strip(IF ref.kind = "none" THEN <<>> ELSE PyToStr(ref)))

\* C18: in the modes 'binary' and 'exact' compute_accuracy compares the trimmed answer
\* and reference case-insensitively and returns only 1.0 or 0.0; for a list reference
\* it returns 1.0 iff the answer equals, case-insensitively after trimming, at least
\* one element (a scalar, or a mapping unwrapped through its answer/value/correct
\* key), else 0.0.
C18_CaseInsensitiveMatch ==
    (AccuracyComputed /\ lastCall.answer_type \in {"binary", "exact"}) =>
        /\ lastCall.raised = NoError
        /\ lastCall.returned \in {<<0>>, <<10000>>}
        /\ IF lastCall.correct_answer.kind = "list"
           THEN lastCall.returned = <<10000>> <=>
                    \E i \in 1..Len(lastCall.correct_answer.items) :
                        MatchesReference(lastCall.user_answer,
                                         lastCall.correct_answer.items[i])
           ELSE lastCall.returned = <<10000>> <=>
                    MatchesReference(lastCall.user_answer, lastCall.correct_answer)

\* C19: compute_accuracy called with a mode other than binary, exact or partial fails
\* with an error for every shape of reference answer (scalar, mapping, list); it
\* never returns a score for an unsupported mode.
C19_UnsupportedModeFails ==
    (AccuracyComputed /\ lastCall.answer_type \notin {"binary", "exact", "partial"}) =>
        /\ lastCall.raised # NoError
        /\ lastCall.returned = <<>>


-----------------------------------------------------------------------------
(* app/core/metrics/synchronous.py and workflow.py: the metrics of a user message.
   Timestamps are in seconds. *)

\* a row of messages for a message of a user: content is the answer, extra_data
\* holds content_id and content_delivery_time when the client sent them
UserMessageRow(cid, answer, timestamp, delivery) ==
    [sender_type |-> "user", content_id |-> cid, content |-> answer,
     timestamp |-> timestamp, content_delivery_time |-> delivery]

SystemMessageRow(cid, timestamp) ==
    [sender_type |-> "system", content_id |-> cid, content |-> <<>>,
     timestamp |-> timestamp, content_delivery_time |-> <<>>]

\* a content item with its reference_answer
AnswerItem(id, topic, reference_answer) ==
    ContentItem(id, topic, "normal", "text", "exercise")
        @@ [reference_answer |-> reference_answer]

\* _fetch_message_data, lines 193-197: the content item of the message, if any
message_content(message, cat) ==
    IF message.content_id # <<>> /\ \E c \in cat : c.content_id = message.content_id[1]
    THEN <<CHOOSE c \in cat : c.content_id = message.content_id[1]>>
    ELSE <<>>

\* the keys content_delivery_time and correct_answer are optional: <<>> is a missing
\* key
extract_message_data(message, content, dialog_messages) ==
    [content_id |-> message.content_id,
     user_answer |-> message.content,
     user_response_time |-> message.timestamp,
     attempts |-> 1,
     content_delivery_time |->
         IF message.content_delivery_time # <<>> THEN message.content_delivery_time
         ELSE IF content # <<>> THEN <<message.timestamp>>
         ELSE <<>>,
     correct_answer |-> IF content # <<>> THEN <<content[1].reference_answer>> ELSE <<>>,
     topic |-> IF content # <<>> THEN content[1].topic ELSE None,
     dialog_messages |-> dialog_messages]

compute_response_time(content_delivery_time, user_response_time) ==
    user_response_time - content_delivery_time

compute_followups_count(dialog_messages) ==
    Max(0, Len(SelectSeq(dialog_messages, LAMBDA msg : msg.sender_type = "user")) - 1)

compute_synchronous_metrics(message_data) ==
    SyncMetrics(
        message_data.content_id,
        message_data.topic,
        IF message_data.correct_answer # <<>> /\ Truthy(message_data.correct_answer[1])
        THEN compute_accuracy(message_data.user_answer, message_data.correct_answer[1],
                              "binary").returned
        ELSE <<>>,
        IF message_data.content_delivery_time # <<>>
        THEN <<compute_response_time(message_data.content_delivery_time[1],
                                     message_data.user_response_time)>>
        ELSE <<>>,
        message_data.attempts,
        IF message_data.dialog_messages # <<>>
        THEN compute_followups_count(message_data.dialog_messages)
        ELSE 0,
        message_data.user_response_time)

\* the metrics dict as aggregate_metrics reads it: the response time in hundredths
\* of a second
AggregatedRecord(metrics) ==
    MetricsRecord(metrics.topic, metrics.accuracy,
                  IF metrics.response_time = <<>> THEN <<>>
                  ELSE <<100 * metrics.response_time[1]>>,
                  metrics.content_id)

WorkflowFaults ==
    {"none", "profile", "fetch", "compute", "store", "query", "mastery_commit",
     "final_commit", "recommendation"}

NoMessageData ==
    [content_id |-> <<>>, user_answer |-> <<>>, user_response_time |-> 0, attempts |-> 1,
     content_delivery_time |-> <<>>, correct_answer |-> <<>>, topic |-> None,
     dialog_messages |-> <<>>]

NoSyncMetrics == SyncMetrics(<<>>, None, <<>>, <<>>, 1, 0, 0)

\* an error of aggregate_metrics is logged and the result reports success
process_message_metrics_swallowing(msgs, table, stored, cat, fail, t) ==
    LET message == msgs[Len(msgs)]
        message_data == extract_message_data(message, message_content(message, cat), msgs)
        metrics == compute_synchronous_metrics(message_data)
        stored_table == store_metrics(table, metrics)
        aggregated ==
            aggregate_metrics(stored, AggregatedRecord(metrics), cat,
                              IF fail \in AggregateFaults THEN fail ELSE "none", t)
        failed(table_after, stored_after, data, computed) ==
            [raised |-> "MetricsWorkflowError", success |-> FALSE, error |-> fail,
             message_data |-> data, metrics |-> computed,
             table |-> table_after, stored |-> stored_after]
    IN IF fail = "fetch" THEN failed(table, stored, NoMessageData, NoSyncMetrics)
       ELSE IF fail = "compute" THEN failed(table, stored, message_data, NoSyncMetrics)
       ELSE IF fail = "store" THEN failed(table, stored, message_data, metrics)
       ELSE IF aggregated.raised # NoError
       THEN [raised |-> NoError, success |-> TRUE, error |-> NoError,
             message_data |-> message_data, metrics |-> metrics,
             table |-> stored_table, stored |-> aggregated.stored]
       ELSE [raised |-> NoError, success |-> TRUE, error |-> NoError,
             message_data |-> message_data, metrics |-> metrics,
             table |-> stored_table, stored |-> aggregated.stored]

\* process_message_metrics for the newest message of msgs, a user message. The
\* result: what the call raised, result["success"], result["error"], the data it
\* extracted, the metrics it computed, and the tables after it
process_message_metrics(msgs, table, stored, cat, fail, t) ==
    LET message == msgs[Len(msgs)]
        message_data == extract_message_data(message, message_content(message, cat), msgs)
        metrics == compute_synchronous_metrics(message_data)
        stored_table == store_metrics(table, metrics)
        aggregated ==
            aggregate_metrics(stored, AggregatedRecord(metrics), cat,
                              IF fail \in AggregateFaults THEN fail ELSE "none", t)
        failed(table_after, stored_after, data, computed) ==
            [raised |-> "MetricsWorkflowError", success |-> FALSE, error |-> fail,
             message_data |-> data, metrics |-> computed,
             table |-> table_after, stored |-> stored_after]
    IN IF fail = "fetch" THEN failed(table, stored, NoMessageData, NoSyncMetrics)
       ELSE IF fail = "compute" THEN failed(table, stored, message_data, NoSyncMetrics)
       ELSE IF fail = "store" THEN failed(table, stored, message_data, metrics)
       ELSE IF aggregated.raised # NoError
       THEN [failed(stored_table, aggregated.stored, message_data, metrics)
                EXCEPT !.error = aggregated.raised]
       ELSE [raised |-> NoError, success |-> TRUE, error |-> NoError,
             message_data |-> message_data, metrics |-> metrics,
             table |-> stored_table, stored |-> aggregated.stored]


-----------------------------------------------------------------------------
(* app/api/routes/messages.py: POST /messages *)

NoWorkflowMetadata ==
    [metrics_computed |-> FALSE, profile_updated |-> FALSE,
     recommendation_generated |-> FALSE, errors |-> <<>>]

NoMessage == SystemMessageRow(<<>>, 0)

\* what process_message_metrics raised, and result["success"], result["error"]
MetricsResult(m) == [raised |-> m.raised, success |-> m.success, error |-> m.error]

NoMetricsResult == [raised |-> NoError, success |-> FALSE, error |-> NoError]

\* create_message: the status of the response, its workflow_metadata, and the
\* tables after the request. fail names the step that the database fails at;
\* msg is the request body, a message row without its timestamp set by the store
create_message(msg, include_recommendation, fail, row, table, dlg, msgs, cat, t) ==
    IF ~dlg.exists
    THEN {[status |-> 404, message |-> NoMessage, workflow_metadata |-> NoWorkflowMetadata,
           message_data |-> NoMessageData, metrics |-> NoSyncMetrics,
           metrics_result |-> NoMetricsResult, recommendation |-> NoContent,
           row |-> row, table |-> table, dlg |-> dlg, msgs |-> msgs]}
    ELSE
    LET db_message == [msg EXCEPT !.timestamp = t]
        msgs1 == Append(msgs, db_message)
        dlg1 == [dlg EXCEPT !.messages_count = @ + 1]
        \* step 2: the call returns False on an error, and the result is not read
        row1 == IF fail = "profile" THEN row ELSE create_user_profile_if_missing(row, t)
        m == process_message_metrics(msgs1, table, row1, cat, fail, t)
        after_metrics ==
            IF m.raised # NoError
            THEN [NoWorkflowMetadata EXCEPT !.errors = <<"Error in metrics workflow">>]
            ELSE IF m.success
            THEN [NoWorkflowMetadata EXCEPT !.metrics_computed = TRUE,
                                            !.profile_updated = TRUE]
            ELSE [NoWorkflowMetadata EXCEPT !.errors = <<"Metrics computation failed">>]
        recommendations ==
            get_next_recommendation(m.stored, m.table, dlg1, msgs1, cat, TRUE, None, None,
                                    <<>>, t)
        response(metadata, content) ==
            [status |-> 201, message |-> db_message, workflow_metadata |-> metadata,
             message_data |-> m.message_data, metrics |-> m.metrics,
             metrics_result |-> MetricsResult(m), recommendation |-> content,
             row |-> m.stored, table |-> m.table, dlg |-> dlg1, msgs |-> msgs1]
    IN IF msg.sender_type # "user"
       THEN {[status |-> 201, message |-> db_message,
              workflow_metadata |-> NoWorkflowMetadata,
              message_data |-> NoMessageData, metrics |-> NoSyncMetrics,
              metrics_result |-> NoMetricsResult, recommendation |-> NoContent,
              row |-> row, table |-> table, dlg |-> dlg1, msgs |-> msgs1]}
       ELSE IF ~include_recommendation
       THEN {response(after_metrics, NoContent)}
       ELSE IF fail = "recommendation"
       THEN {response([after_metrics EXCEPT
                          !.errors = Append(@, "Error generating recommendation")],
                      NoContent)}
       ELSE {IF r.raised # NoError
             THEN response([after_metrics EXCEPT
                               !.errors = Append(@, "Error generating recommendation")],
                           NoContent)
             ELSE response([after_metrics EXCEPT !.recommendation_generated = TRUE],
                           r.content) :
             r \in recommendations}

-----------------------------------------------------------------------------
(* The message workflow: requests to POST /messages, one at a time *)

\* requests in a run
MaxRequests == 1

AnswerItem1 == AnswerItem(1, "algebra", PyStr(<<"a">>))
AnswerItem2 == AnswerItem(2, "algebra", PyNone)

WorkflowProfileRows ==
    {NoProfileRow,
     [ProfileRow(("algebra" :> 5000), "normal", None)
         EXCEPT !.avg_response_time = <<2500>>, !.total_interactions = 2]}

WorkflowDialogRows == {NoDialogRow, DialogRow(None, 0)}

\* seconds from the delivery of the content to the answer, when the client sends
\* content_delivery_time
DeliveryDelay == 25

WorkflowRequests(t) ==
    {SystemMessageRow(cid, 0) : cid \in {<<>>, <<1>>}}
    \cup {UserMessageRow(<<1>>, answer, 0, delivery) :
            answer \in {<<"a">>, <<"b">>}, delivery \in {<<>>, <<t - DeliveryDelay>>}}
    \cup {UserMessageRow(cid, <<"a">>, 0, delivery) :
            cid \in {<<>>, <<2>>}, delivery \in {<<>>, <<t - DeliveryDelay>>}}

NoWorkflowCall ==
    [op |-> "init", requests |-> 0, request |-> NoMessage,
     include_recommendation |-> FALSE, fail |-> "none", status |-> 0,
     message |-> NoMessage, workflow_metadata |-> NoWorkflowMetadata,
     message_data |-> NoMessageData, metrics |-> NoSyncMetrics,
     metrics_result |-> NoMetricsResult, recommendation |-> NoContent,
     before |-> NoProfileRow, table_before |-> <<>>]

InitWorkflow ==
    /\ default_strategy = "rules"
    /\ current_strategy = "rules"
    /\ profileRow \in WorkflowProfileRows
    /\ metricsTable = <<>>
    /\ dialogRow \in WorkflowDialogRows
    /\ now = 30
    /\ messagesTable = <<>>
    /\ catalog = {AnswerItem1, AnswerItem2}
    /\ sessions = <<>>
    /\ lastCall = [NoWorkflowCall EXCEPT !.before = profileRow]

PostMessage ==
    \E msg \in WorkflowRequests(now), include_recommendation \in BOOLEAN,
       fail \in WorkflowFaults :
        \E r \in create_message(msg, include_recommendation, fail, profileRow,
                                metricsTable, dialogRow, messagesTable, catalog, now) :
            /\ lastCall.requests < MaxRequests
            /\ msg.sender_type = "user" \/ (fail = "none" /\ ~include_recommendation)
            /\ profileRow' = r.row
            /\ metricsTable' = r.table
            /\ dialogRow' = r.dlg
            /\ messagesTable' = r.msgs
            /\ now' = now + 30
            /\ lastCall' = [op |-> "create_message", requests |-> lastCall.requests + 1,
                            request |-> msg,
                            include_recommendation |-> include_recommendation,
                            fail |-> fail, status |-> r.status, message |-> r.message,
                            workflow_metadata |-> r.workflow_metadata,
                            message_data |-> r.message_data, metrics |-> r.metrics,
                            metrics_result |-> r.metrics_result,
                            recommendation |-> r.recommendation,
                            before |-> profileRow, table_before |-> metricsTable]
            /\ UNCHANGED <<default_strategy, current_strategy, catalog, sessions>>

NextWorkflow == PostMessage

SpecWorkflow == InitWorkflow /\ [][NextWorkflow]_vars

UserMessagePosted ==
    /\ lastCall.op = "create_message"
    /\ lastCall.status = 201
    /\ lastCall.request.sender_type = "user"

\* the metrics workflow of the request got as far as computing the metrics
MetricsWereComputed ==
    /\ UserMessagePosted
    /\ lastCall.fail \notin {"fetch", "compute"}

NoReferenceAnswer ==
    \/ message_content(lastCall.message, catalog) = <<>>
    \/ ~Truthy(message_content(lastCall.message, catalog)[1].reference_answer)

ResponseTimeRowsOf(table, timestamp) ==
    SelectSeq(table, LAMBDA r : r.metric_name = "response_time" /\ r.timestamp = timestamp)

AccuracyRowsOf(table, timestamp) ==
    SelectSeq(table, LAMBDA r : r.metric_name = "accuracy" /\ r.timestamp = timestamp)

\* the profile row that the metrics workflow of the request found
ProfileBeforeMetrics ==
    IF lastCall.fail = "profile" THEN lastCall.before
    ELSE create_user_profile_if_missing(lastCall.before, 0)

\* C17: the metrics of a user message have accuracy null when its content has no
\* reference answer and response_time null when the message carries no
\* content_delivery_time, and a null metric leaves no metric row and does not
\* change the profile's average response time or topic mastery
C17_MissingInputsGiveNullMetrics ==
    MetricsWereComputed =>
        /\ NoReferenceAnswer =>
              /\ lastCall.metrics.accuracy = <<>>
              /\ AccuracyRowsOf(metricsTable, lastCall.message.timestamp) = <<>>
              /\ profileRow.topic_mastery = ProfileBeforeMetrics.topic_mastery
        /\ lastCall.request.content_delivery_time = <<>> =>
              /\ lastCall.metrics.response_time = <<>>
              /\ ResponseTimeRowsOf(metricsTable, lastCall.message.timestamp) = <<>>
              /\ profileRow.avg_response_time = ProfileBeforeMetrics.avg_response_time


\* a request for a user message in a dialog that exists
UserMessageRequested ==
    /\ lastCall.op = "create_message"
    /\ lastCall.request.sender_type = "user"
    /\ dialogRow.exists

MessageStored ==
    /\ lastCall.status = 201
    /\ messagesTable # <<>>
    /\ messagesTable[Len(messagesTable)] = lastCall.message
    /\ lastCall.message.content = lastCall.request.content

Recorded(error) ==
    \E i \in 1..Len(lastCall.workflow_metadata.errors) :
        lastCall.workflow_metadata.errors[i] = error

ProfileCreationFailed == lastCall.fail = "profile"

\* computation, storage or aggregation failed: the statement that fails is one the
\* request executes, or there is no profile to aggregate into
MetricsProcessingFailed ==
    \/ lastCall.fail \in {"fetch", "compute", "store", "query", "final_commit"}
    \/ /\ lastCall.fail = "mastery_commit"
       /\ updates_mastery(AggregatedRecord(lastCall.metrics), catalog)
    \/ ~ProfileBeforeMetrics.exists

RecommendationFailed ==
    /\ lastCall.include_recommendation
    /\ lastCall.fail = "recommendation"

MetricsFailureRecorded ==
    MetricsProcessingFailed =>
        /\ Recorded("Error in metrics workflow") \/ Recorded("Metrics computation failed")
        /\ ~lastCall.workflow_metadata.metrics_computed
        /\ ~lastCall.workflow_metadata.profile_updated

RecommendationFailureRecorded ==
    RecommendationFailed =>
        /\ Recorded("Error generating recommendation")
        /\ ~lastCall.workflow_metadata.recommendation_generated

\* C20: whichever of profile creation, metrics computation, metrics storage,
\* aggregation and recommendation generation fails for a user message, the message
\* is stored, the response is 201, workflow_metadata.errors has an entry for the
\* failure and the flag of the failed step is false
C20_FailuresRecordedMessageKept ==
    UserMessageRequested =>
        /\ MessageStored
        /\ ProfileCreationFailed => lastCall.workflow_metadata.errors # <<>>
        /\ MetricsFailureRecorded
        /\ RecommendationFailureRecorded


\* a statement of aggregate_metrics that the request executes fails in the store
AggregationStorageFailed ==
    /\ MetricsWereComputed
    /\ ProfileBeforeMetrics.exists
    /\ \/ lastCall.fail \in {"query", "final_commit"}
       \/ /\ lastCall.fail = "mastery_commit"
          /\ updates_mastery(AggregatedRecord(lastCall.metrics), catalog)

\* C29: a storage failure during aggregate_metrics inside process_message_metrics
\* is not retried and not swallowed: the call raises MetricsWorkflowError instead of
\* returning a result, never reports success, and the counters of the profile are
\* those of before the call (the update was rolled back and not made again).
C29_AggregationFailurePropagates ==
    AggregationStorageFailed =>
        /\ lastCall.metrics_result.raised = "MetricsWorkflowError"
        /\ ~lastCall.metrics_result.success
        /\ ~lastCall.workflow_metadata.profile_updated
        /\ profileRow.total_interactions = ProfileBeforeMetrics.total_interactions
        /\ profileRow.avg_response_time = ProfileBeforeMetrics.avg_response_time

\* the final commit fails after the mastery of the topic was committed
C29_Witness ==
    /\ AggregationStorageFailed
    /\ lastCall.fail = "final_commit"
    /\ lastCall.metrics.accuracy = <<10000>>
    /\ lastCall.metrics_result.raised = "MetricsWorkflowError"
    /\ profileRow.total_interactions = 2

-----------------------------------------------------------------------------
(* The rules adapter called directly: decide_format, decide_tempo, _detect_fatigue,
   identify_remediation, SessionContext.session_duration_minutes and
   get_recommendation. Time is in minutes. *)

\* steps of the clock in a run
MaxTicks == 3

\* minutes between two readings of the clock
TickMinutes == 20

\* the profile dict the adapter reads
UserProfileDict(m, d, f, p) ==
    [topic_mastery |-> m, current_difficulty |-> d, preferred_format |-> f,
     learning_pace |-> p]

FollowupRows(values) == [i \in 1..Len(values) |-> MetricRow("followups_count", values[i])]

RulesAccuracies == {<<>>, <<3000>>, <<5000>>, <<8000>>, <<9000, 7000>>, <<10000, 5000>>}
RulesResponseTimes == {<<>>, <<20>>, <<30>>, <<120>>, <<150>>, <<100, 142>>}
RulesFollowups == {<<>>, <<3>>, <<2, 2>>}
RulesPreferredFormats == {None, "video", "interactive"}

Session(dialog_id, session_start_time, messages_count) ==
    [dialog_id |-> dialog_id, session_start_time |-> session_start_time,
     messages_count |-> messages_count, current_topic |-> None]

NoRulesCall ==
    [op |-> "init", user_profile |-> UserProfileDict(EmptyMap, "normal", None, "medium"),
     recent_metrics |-> <<>>, session_context |-> EmptySessionContext, at |-> 0,
     result |-> None, earlier |-> <<>>]

InitRules ==
    /\ default_strategy = "rules"
    /\ current_strategy = "rules"
    /\ profileRow = NoProfileRow
    /\ metricsTable = <<>>
    /\ dialogRow = NoDialogRow
    /\ now = 30
    /\ messagesTable = <<>>
    /\ catalog = {}
    /\ sessions = <<>>
    /\ lastCall = NoRulesCall

\* datetime.utcnow() gives a later time at a later call
Tick ==
    /\ now < 30 + TickMinutes * MaxTicks
    /\ now' = now + TickMinutes
    /\ UNCHANGED <<default_strategy, current_strategy, profileRow, metricsTable, dialogRow,
                   messagesTable, catalog, lastCall, sessions>>

DecideFormat ==
    \E preferred_format \in RulesPreferredFormats, accuracies \in RulesAccuracies,
       response_times \in RulesResponseTimes, followups \in RulesFollowups :
        LET user_profile == UserProfileDict(EmptyMap, "normal", preferred_format, "medium")
            recent_metrics == AccuracyRows(accuracies) \o ResponseTimeRows(response_times)
                              \o FollowupRows(followups)
        IN /\ lastCall' = [NoRulesCall EXCEPT
                               !.op = "decide_format",
                               !.user_profile = user_profile,
                               !.recent_metrics = recent_metrics,
                               !.at = now,
                               !.result = decide_format(user_profile,
                                              build_metrics_summary(recent_metrics))]
           /\ UNCHANGED <<default_strategy, current_strategy, profileRow, metricsTable,
                          dialogRow, messagesTable, catalog, now, sessions>>


FormatDecided == lastCall.op = "decide_format"

DecidedFollowups == SumSeq(MetricValues(lastCall.recent_metrics, "followups_count"))

\* C21: decide_format returns the profile's preferred_format with confidence 0.9
\* when one is set, whatever the metrics; otherwise 'text' with confidence 0.3 when
\* there are neither accuracy nor response-time samples; otherwise the result of
\* the first matching rule: follow-ups > 3 gives visual; avg_accuracy >= 0.8 and
\* avg_response_time < 30 gives text; avg_response_time > 120 gives video;
\* avg_accuracy < 0.5 gives interactive; else text.
C21_DecideFormatRules ==
    FormatDecided =>
        LET decision == lastCall.result
            preferred_format == lastCall.user_profile.preferred_format
        IN IF preferred_format # None
           THEN /\ decision.recommended_format = preferred_format
                /\ decision.confidence = 90
           ELSE IF DecidedSampleSize = 0
           THEN /\ decision.recommended_format = "text"
                /\ decision.confidence = 30
           ELSE decision.recommended_format =
                    IF DecidedFollowups > 3 THEN "visual"
                    ELSE IF /\ DecidedAccuracySum >= 8000 * DecidedAccuracyCount
                            /\ DecidedResponseTimeSum < 30 * DecidedResponseTimeCount
                    THEN "text"
                    ELSE IF DecidedResponseTimeSum > 120 * DecidedResponseTimeCount
                    THEN "video"
                    ELSE IF DecidedAccuracySum < 5000 * DecidedAccuracyCount
                    THEN "interactive"
                    ELSE "text"

\* no preference, accuracy 0.3 and response time 150 s: rules 3 and 4 both match and
\* rule 3 gives video
C21_Witness ==
    /\ FormatDecided
    /\ lastCall.user_profile.preferred_format = None
    /\ DecidedAccuracies = <<3000>>
    /\ DecidedResponseTimes = <<150>>
    /\ DecidedFollowups <= 3
    /\ lastCall.result.recommended_format = "video"

TempoDialogIds == {<<>>, <<1>>}
TempoStartTimes == {<<>>, <<0>>, <<80>>}
TempoMessagesCounts == {0, 9, 10, 20, 21, 30}
TempoResponseTimes == {<<>>, <<10, 10, 20, 20>>, <<20, 20, 10, 10>>, <<10, 10, 13>>}

DecideTempo ==
    \E dialog_id \in TempoDialogIds, session_start_time \in TempoStartTimes,
       messages_count \in TempoMessagesCounts, learning_pace \in {"medium", "fast"},
       response_times \in TempoResponseTimes :
        LET user_profile == UserProfileDict(EmptyMap, "normal", None, learning_pace)
            recent_metrics == ResponseTimeRows(response_times)
            session_context == Session(dialog_id, session_start_time, messages_count)
        IN /\ lastCall' = [NoRulesCall EXCEPT
                               !.op = "decide_tempo",
                               !.user_profile = user_profile,
                               !.recent_metrics = recent_metrics,
                               !.session_context = session_context,
                               !.at = now,
                               !.result = decide_tempo(user_profile,
                                              build_metrics_summary(recent_metrics),
                                              session_context, now)]
           /\ UNCHANGED <<default_strategy, current_strategy, profileRow, metricsTable,
                          dialogRow, messagesTable, catalog, now, sessions>>

FatigueSequences ==
    {<<>>, <<10, 20>>, <<10, 10, 13>>, <<10, 13, 13>>, <<10, 14, 14>>, <<0, 0, 5, 5>>,
     <<0, 10, 10>>, <<20, 10, 10>>, <<-10, -20, -20>>,
     <<10, 10, 10, 10, 20, 20, 20, 20>>, <<10, 10, 10, 10, 10, 10>>}

DetectFatigue ==
    \E response_times \in FatigueSequences :
        LET recent_metrics == ResponseTimeRows(response_times)
        IN /\ lastCall' = [NoRulesCall EXCEPT
                               !.op = "detect_fatigue",
                               !.recent_metrics = recent_metrics,
                               !.at = now,
                               !.result = detect_fatigue(build_metrics_summary(recent_metrics))]
           /\ UNCHANGED <<default_strategy, current_strategy, profileRow, metricsTable,
                          dialogRow, messagesTable, catalog, now, sessions>>

\* fatigue as the claim states it, for a sequence rts with first half rts[1..len/2]:
\* the ratio is (s2/n2 - s1/n1) / (s1/n1) = p/q with p = s2*n1 - s1*n2, q = n2*s1,
\* and p/q > 3/10 iff 10*p*q > 3*q*q
FatigueAsClaimed(rts) ==
    LET half == Len(rts) \div 2
        s1 == SumSeq([i \in 1..half |-> rts[i]])
        s2 == SumSeq([i \in 1..(Len(rts) - half) |-> rts[half + i]])
        p == s2 * half - s1 * (Len(rts) - half)
        q == (Len(rts) - half) * s1
    IN /\ Len(rts) >= 3
       /\ s1 # 0
       /\ 10 * p * q > 3 * q * q

TempoDecided == lastCall.op = "decide_tempo"

TempoAsClaimed ==
    LET ctx == lastCall.session_context
        session_minutes == lastCall.at - ctx.session_start_time[1]
    IN IF session_minutes > 60 THEN "break"
       ELSE IF ctx.messages_count > 20 THEN "slow"
       ELSE IF FatigueAsClaimed(DecidedResponseTimes) THEN "slow"
       ELSE IF lastCall.user_profile.learning_pace = "fast" /\ ctx.messages_count < 10
       THEN "fast"
       ELSE "normal"

FatigueDetected == lastCall.op = "detect_fatigue"

\* C23: fatigue detection returns true iff the response-time sequence has at least
\* 3 samples, the average of its first half (indices below len//2) is non-zero and
\* (second_half_avg - first_half_avg) / first_half_avg > 0.3;
\* [10,10,10,10,20,20,20,20] gives true and [10,10,10,10,10,10] gives false.
C23_FatigueDetection ==
    FatigueDetected =>
        /\ lastCall.result = FatigueAsClaimed(DecidedResponseTimes)
        /\ DecidedResponseTimes = <<10, 10, 10, 10, 20, 20, 20, 20>> => lastCall.result = TRUE
        /\ DecidedResponseTimes = <<10, 10, 10, 10, 10, 10>> => lastCall.result = FALSE

\* an increase of exactly 30% is no fatigue
C23_Witness ==
    /\ FatigueDetected
    /\ DecidedResponseTimes = <<10, 13, 13>>
    /\ lastCall.result = FALSE

RemediationMasteryMaps ==
    {EmptyMap,
     ("algebra" :> 2000) @@ ("calc" :> 6000),
     ("algebra" :> 3000) @@ ("calc" :> 1000),
     ("algebra" :> 4000) @@ ("calc" :> 3999),
     ("algebra" :> 4000),
     ("algebra" :> 5000) @@ ("calc" :> 9000),
     ("algebra" :> 2000) @@ ("calc" :> 2000) @@ ("geometry" :> 0)}

IdentifyRemediation ==
    \E topic_mastery \in RemediationMasteryMaps :
        LET user_profile == UserProfileDict(topic_mastery, "normal", None, "medium")
        IN /\ lastCall' = [NoRulesCall EXCEPT
                               !.op = "identify_remediation",
                               !.user_profile = user_profile,
                               !.at = now,
                               !.result = identify_remediation(user_profile)]
           /\ UNCHANGED <<default_strategy, current_strategy, profileRow, metricsTable,
                          dialogRow, messagesTable, catalog, now, sessions>>

RemediationIdentified == lastCall.op = "identify_remediation"

\* C24: identify_remediation returns exactly the topics of the mastery map whose
\* mastery is < 0.4, weakest first, with mastery_scores holding exactly those
\* topics; an empty list with a reasoning when no topic qualifies or the map is
\* empty; {algebra: 0.2, calc: 0.6} gives [algebra].
C24_RemediationTopics ==
    RemediationIdentified =>
        LET topic_mastery == lastCall.user_profile.topic_mastery
            weak == {t \in DOMAIN topic_mastery : topic_mastery[t] < 4000}
            topics == lastCall.result.topics
            mastery_scores == lastCall.result.mastery_scores
        IN /\ {topics[i] : i \in 1..Len(topics)} = weak
           /\ Len(topics) = Cardinality(weak)
           /\ \A i, j \in 1..Len(topics) :
                  i < j => topic_mastery[topics[i]] <= topic_mastery[topics[j]]
           /\ DOMAIN mastery_scores = weak
           /\ \A t \in weak : mastery_scores[t] = topic_mastery[t]
           /\ weak = {} => topics = <<>> /\ lastCall.result.reasoning # None
           /\ topic_mastery = ("algebra" :> 2000) @@ ("calc" :> 6000) =>
                  topics = <<"algebra">>

\* a mastery of exactly 0.4 is not below the threshold, 0.3999 is
C24_Witness ==
    /\ RemediationIdentified
    /\ lastCall.user_profile.topic_mastery = ("algebra" :> 4000) @@ ("calc" :> 3999)
    /\ lastCall.result.topics = <<"calc">>

\* SessionContext(session_start_time = ...).session_duration_minutes read at now
SessionDurationMinutes ==
    \E session_start_time \in TempoStartTimes :
        LET session_context == Session(<<1>>, session_start_time, 0)
        IN /\ lastCall' = [NoRulesCall EXCEPT
                               !.op = "session_duration_minutes",
                               !.session_context = session_context,
                               !.at = now,
                               !.result = session_duration_minutes(session_context, now)]
           /\ UNCHANGED <<default_strategy, current_strategy, profileRow, metricsTable,
                          dialogRow, messagesTable, catalog, now, sessions>>

\* C26: session_duration_minutes is >= 0 for every session start time and every
\* current time, and 0 when no start time is known; decide_tempo gives 'break' only
\* when more than 60 minutes have elapsed since the start of the session.
C26_SessionDurationNonNegative ==
    /\ lastCall.op = "session_duration_minutes" =>
           /\ lastCall.result >= 0
           /\ lastCall.session_context.session_start_time = <<>> => lastCall.result = 0
    /\ (TempoDecided /\ lastCall.result.recommended_tempo = "break") =>
           /\ lastCall.session_context.session_start_time # <<>>
           /\ lastCall.at - lastCall.session_context.session_start_time[1] > 60

GetRecommendationProfiles ==
    {UserProfileDict(("algebra" :> 2000), current_difficulty, None, learning_pace) :
        current_difficulty \in {"easy", "normal", "challenge"},
        learning_pace \in {"medium", "fast"}}

GetRecommendationMetrics ==
    {<<>>,
     AccuracyRows(<<9000>>) \o ResponseTimeRows(<<20>>),
     AccuracyRows(<<3000>>) \o ResponseTimeRows(<<150>>)}

GetRecommendationSessions == {EmptySessionContext, Session(<<1>>, <<0>>, 4)}

\* the call a record of lastCall describes, for the next call to be compared with
CallOf(call) ==
    [user_profile |-> call.user_profile, recent_metrics |-> call.recent_metrics,
     session_context |-> call.session_context, at |-> call.at, result |-> call.result]

\* RulesAdapter.get_recommendation on one adapter; earlier is the call before it
RulesGetRecommendation ==
    \E user_profile \in GetRecommendationProfiles,
       recent_metrics \in GetRecommendationMetrics,
       session_context \in GetRecommendationSessions :
        /\ lastCall' = [op |-> "get_recommendation",
                        user_profile |-> user_profile,
                        recent_metrics |-> recent_metrics,
                        session_context |-> session_context,
                        at |-> now,
                        result |-> RulesAdapter_get_recommendation(
                                       user_profile, recent_metrics, session_context, now),
                        earlier |-> IF lastCall.op = "get_recommendation"
                                    THEN <<CallOf(lastCall)>> ELSE <<>>]
        /\ UNCHANGED <<default_strategy, current_strategy, profileRow, metricsTable,
                       dialogRow, messagesTable, catalog, now, sessions>>

RulesRecommended == lastCall.op = "get_recommendation"

\* C27: two calls of RulesAdapter.get_recommendation with equal user profile, equal
\* recent metrics and equal session context return the same difficulty, format,
\* tempo and remediation decisions with the same confidences, whenever they are
\* made.
C27_Deterministic ==
    (/\ RulesRecommended
     /\ lastCall.earlier # <<>>
     /\ lastCall.earlier[1].user_profile = lastCall.user_profile
     /\ lastCall.earlier[1].recent_metrics = lastCall.recent_metrics
     /\ lastCall.earlier[1].session_context = lastCall.session_context) =>
        /\ lastCall.earlier[1].result.difficulty = lastCall.result.difficulty
        /\ lastCall.earlier[1].result.format = lastCall.result.format
        /\ lastCall.earlier[1].result.tempo = lastCall.result.tempo
        /\ lastCall.earlier[1].result.remediation = lastCall.result.remediation

\* C30: in every DifficultyDecision change_from_current equals
\* order(recommended_difficulty) - order(current difficulty of the profile), so it
\* is 0 exactly when the recommended level equals the current one; and the overall
\* reasoning says the difficulty is being adjusted only when the recommended level
\* differs from the current level.
C30_ChangeFromCurrentIsOrderDifference ==
    RulesRecommended =>
        LET difficulty == lastCall.result.difficulty
            current == lastCall.user_profile.current_difficulty
        IN /\ difficulty.change_from_current =
                  DIFFICULTY_ORDER(difficulty.recommended_difficulty)
                  - DIFFICULTY_ORDER(current)
           /\ lastCall.result.overall_reasoning.adjusting_difficulty =>
                  difficulty.recommended_difficulty # current

\* the decisions of the adapter, one at a time
NextRules ==
    \/ Tick
    \/ DecideFormat
    \/ DecideTempo
    \/ DetectFatigue
    \/ IdentifyRemediation
    \/ SessionDurationMinutes

SpecRules == InitRules /\ [][NextRules]_vars

\* calls of get_recommendation on one adapter while time passes
NextAdapter == Tick \/ RulesGetRecommendation

SpecAdapter == InitRules /\ [][NextAdapter]_vars


-----------------------------------------------------------------------------
(* app/services/recommendation_service.py: the recommendation for a new user *)

\* the results get_cold_start_recommendation can give; the confidence 0.3 is in
\* three-hundredths, as the confidence of get_next_recommendation
get_cold_start_recommendation(cat, preferred_topic) ==
    LET normal == get_random_content(cat, preferred_topic, "normal", None)
        any == get_random_content(cat, None, None, None)
        recommendation(content) ==
            [raised |-> NoError, content |-> content, tier |-> 0,
             topic |-> content.topic, difficulty |-> "normal", format |-> content.format,
             exclude_ids |-> {}, confidence |-> 90, strategy_used |-> "cold_start"]
    IN IF normal.rows # {} THEN {recommendation(content) : content \in normal.rows}
       ELSE IF any.rows # {} THEN {recommendation(content) : content \in any.rows}
       ELSE {[raised |-> "Exception: No content available for cold start",
              content |-> NoContent, tier |-> 0, topic |-> None, difficulty |-> None,
              format |-> None, exclude_ids |-> {}, confidence |-> 0,
              strategy_used |-> None]}

PreferredTopics == {None, "algebra", "calc", "geometry"}

GetColdStartRecommendation ==
    \E preferred_topic \in PreferredTopics :
        \E r \in get_cold_start_recommendation(catalog, preferred_topic) :
            /\ lastCall' = [op |-> "get_cold_start_recommendation",
                            preferred_topic |-> preferred_topic, result |-> r]
            /\ UNCHANGED <<default_strategy, current_strategy, profileRow, metricsTable,
                           dialogRow, messagesTable, catalog, now, sessions>>

NextColdStart == GetColdStartRecommendation

SpecColdStart == InitService /\ [][NextColdStart]_vars

ColdStartReturned ==
    /\ lastCall.op = "get_cold_start_recommendation"
    /\ lastCall.result.raised = NoError

\* C25: get_cold_start_recommendation returns content whose difficulty_level is
\* 'normal', of the preferred topic when one is given and has such content, with
\* confidence 0.3 and strategy_used 'cold_start', and the difficulty in
\* recommendation_metadata is the difficulty of the returned content.
C25_ColdStartNormalContent ==
    ColdStartReturned =>
        LET r == lastCall.result
            topic == lastCall.preferred_topic
        IN /\ r.content.difficulty_level = "normal"
           /\ (/\ topic # None
               /\ \E c \in catalog : c.topic = topic /\ c.difficulty_level = "normal") =>
                  r.content.topic = topic
           /\ r.confidence = 90
           /\ r.strategy_used = "cold_start"
           /\ r.difficulty = r.content.difficulty_level


-----------------------------------------------------------------------------
(* The engine in a session: metric rows are stored interaction by interaction and
   AdaptationEngine.get_recommendation is called with the dialog *)

InitSession ==
    /\ default_strategy = "rules"
    /\ current_strategy = "rules"
    /\ profileRow = ProfileRow(EmptyMap, "normal", None)
    /\ metricsTable = <<>>
    /\ dialogRow = DialogRow(None, 4)
    /\ now = 30
    /\ messagesTable = <<>>
    /\ catalog = {}
    /\ sessions = <<>>
    /\ lastCall = NoHistoryCall

\* AdaptationEngine.get_recommendation(user_id, dialog_id); table is the order in
\* which the database ranks the rows
GetRecommendationInSession ==
    \E table \in TieOrders(metricsTable, 10) :
        LET r == AdaptationEngine_get_recommendation(
                     current_strategy, profileRow, table, dialogRow, TRUE, NoFaults, now)
        IN /\ lastCall' = [op |-> "get_recommendation", table |-> table,
                           raised |-> r.raised, rec |-> r.rec]
           /\ UNCHANGED <<default_strategy, current_strategy, profileRow, metricsTable,
                          dialogRow, messagesTable, catalog, now, sessions>>

NextSession == StoreMetrics \/ GetRecommendationInSession

SpecSession == InitSession /\ [][NextSession]_vars

\* the response times of the window, oldest interaction first
WindowResponseTimes == MetricValues(RecentWindow, "response_time")

\* every response time of the window is at most the one before it, and the last is
\* below the first
GotFaster(rts) ==
    /\ Len(rts) >= 3
    /\ \A i \in 1..(Len(rts) - 1) : rts[i + 1] <= rts[i]
    /\ rts[Len(rts)] < rts[1]

\* C28: on the engine path fatigue detection gets the response times of the up-to-10
\* most recent metric records oldest first: fatigue is signalled (tempo 'slow' in a
\* short session of a learner of medium pace) when the later response times are more
\* than 30% slower than the earlier ones, and not when the response times got faster.
C28_FatigueOnChronologicalTimes ==
    RecommendedOnHistory =>
        /\ FatigueAsClaimed(WindowResponseTimes) =>
               lastCall.rec.tempo.recommended_tempo = "slow"
        /\ GotFaster(WindowResponseTimes) =>
               lastCall.rec.tempo.recommended_tempo # "slow"

====
